---- MODULE Spec2Model ----
(***************************************************************************)
(* Knowledge Graph Query Engine of SBEKMS-Backend: the graph exploration   *)
(* service (app/api/graph.py) and the unified search service               *)
(* (app/api/search.py), modelled as state machines over one request.       *)
(*                                                                         *)
(* Conventions                                                             *)
(*  - a Python str is a sequence of one-character strings, so that         *)
(*    split, find, startswith, lower and "in" are computed, not assumed;   *)
(*  - None and an unbound SPARQL variable are the value None; an Optional   *)
(*    field that is no str or list (int, bool, date) is the set of its     *)
(*    value, {} for None;                                                  *)
(*  - a float that the code rounds is kept as a scaled integer: a score    *)
(*    in tenths, avg_degree in hundredths, density in ten-thousandths.     *)
(***************************************************************************)
EXTENDS Integers, Sequences, FiniteSets, TLC

VARIABLES pc, query, sparql_query, gateway_calls, results, response, arg, ret

vars == <<pc, query, sparql_query, gateway_calls, results, response, arg, ret>>

\* None, and an unbound variable of a binding row: no Python str, whose
\* elements are single characters
None == <<"None">>

(***************************************************************************)
(* Bounds.                                                                 *)
(***************************************************************************)
MaxUriLen == 4
\* the most binding rows of one projected result
MaxRows == 3
\* the most binding rows the gateway returns to one explore request
MaxBindings == 1
\* the largest file size bound of a search query
MaxFileSize == 1

(***************************************************************************)
(* Python str primitives.                                                  *)
(***************************************************************************)
\* c in s, for a one-character c
Contains(s, c) == \E i \in 1..Len(s) : s[i] = c

RECURSIVE SplitFrom(_, _, _, _)
SplitFrom(s, sep, i, cur) ==
    IF i > Len(s) THEN <<cur>>
    ELSE IF s[i] = sep THEN <<cur>> \o SplitFrom(s, sep, i + 1, <<>>)
    ELSE SplitFrom(s, sep, i + 1, Append(cur, s[i]))

\* s.split(sep), for a one-character sep
Split(s, sep) == SplitFrom(s, sep, 1, <<>>)

\* parts[-1]
Last(parts) == parts[Len(parts)]

\* s.startswith(p)
StartsWith(s, p) == Len(p) <= Len(s) /\ SubSeq(s, 1, Len(p)) = p

\* the literals 'http', 'Unknown' and 'Resource' of graph.py
Http == <<"h", "t", "t", "p">>
Unknown == <<"U", "n", "k", "n", "o", "w", "n">>
Resource == <<"R", "e", "s", "o", "u", "r", "c", "e">>

(***************************************************************************)
(* KnowledgeGraphService: the three local-name extractors.                 *)
(***************************************************************************)
\* the variant that takes the first part of the split, not the last
extract_label_from_uri_first(uri) ==
    IF Contains(uri, "#") THEN Split(uri, "#")[1]
    ELSE IF Contains(uri, "/") THEN Split(uri, "/")[1]
    ELSE uri

extract_label_from_uri(uri) ==
    IF Contains(uri, "#") THEN Last(Split(uri, "#"))
    ELSE IF Contains(uri, "/") THEN Last(Split(uri, "/"))
    ELSE uri

extract_class_name(class_uri) ==
    IF class_uri = <<>> \/ class_uri = Unknown THEN Resource
    ELSE IF Contains(class_uri, "#") THEN Last(Split(class_uri, "#"))
    ELSE IF Contains(class_uri, "/") THEN Last(Split(class_uri, "/"))
    ELSE class_uri

extract_relationship_name(predicate_uri) ==
    IF Contains(predicate_uri, "#") THEN Last(Split(predicate_uri, "#"))
    ELSE IF Contains(predicate_uri, "/") THEN Last(Split(predicate_uri, "/"))
    ELSE predicate_uri

(***************************************************************************)
(* SpecNames: the extractors applied to every string over UriAlphabet of   *)
(* at most MaxUriLen characters, and to the placeholder 'Unknown'.         *)
(***************************************************************************)
UriAlphabet == {"#", "/", "a", "b"}

StringsUpTo(alphabet, n) == UNION {[1..k -> alphabet] : k \in 0..n}

UriInputs == StringsUpTo(UriAlphabet, MaxUriLen) \cup {Unknown}

InitNames ==
    /\ pc = "call"
    /\ arg \in [uri : UriInputs]
    /\ ret = None
    /\ query = None
    /\ sparql_query = None
    /\ gateway_calls = 0
    /\ results = <<>>
    /\ response = None

ExtractNames ==
    /\ pc = "call"
    /\ ret' = [label |-> extract_label_from_uri(arg.uri),
               class |-> extract_class_name(arg.uri),
               relationship |-> extract_relationship_name(arg.uri)]
    /\ pc' = "return"
    /\ UNCHANGED <<arg, query, sparql_query, gateway_calls, results, response>>

NextNames == ExtractNames

SpecNames == InitNames /\ [][NextNames]_vars

(***************************************************************************)
(* C9                                                                      *)
(***************************************************************************)
\* The text of s after the last occurrence of the character c (c occurs in s).
AfterLast(s, c) ==
    LET i == CHOOSE k \in 1..Len(s) :
                 s[k] = c /\ \A j \in (k + 1)..Len(s) : s[j] # c
    IN  SubSeq(s, i + 1, Len(s))

LocalNameRule(s) ==
    IF Contains(s, "#") THEN AfterLast(s, "#")
    ELSE IF Contains(s, "/") THEN AfterLast(s, "/")
    ELSE s

\* C9: local-name extraction returns the text after the last '#' if the
\* string contains '#', otherwise the text after the last '/' if it contains
\* '/', otherwise the whole string; the label and relationship extractors
\* follow the rule on every input and the class extractor agrees with them on
\* every non-empty input other than the placeholder 'Unknown'.
C9_LocalNameRule ==
    pc = "return" =>
        /\ ret.label = LocalNameRule(arg.uri)
        /\ ret.relationship = LocalNameRule(arg.uri)
        /\ (arg.uri # <<>> /\ arg.uri # Unknown => ret.class = ret.label)

\* a string with two '#' and a '/' after the last one: the suffix after the
\* last '#' is taken, '/' included
C9_Witness ==
    /\ pc = "return"
    /\ arg.uri = <<"#", "#", "/", "b">>
    /\ ret.label = <<"/", "b">>
    /\ ret.class = <<"/", "b">>
    /\ ret.relationship = <<"/", "b">>

(***************************************************************************)
(* Binding rows of a SPARQL result and the graph model.                    *)
(***************************************************************************)
\* the variant without defaults: result[var]['value'] of a bound variable,
\* None otherwise
GetNoDefault(result, var, default) == result[var]

\* result.get(var, {}).get('value', default)
Get(result, var, default) == IF result[var] = None THEN default ELSE result[var]

\* the keys "uri" and "full_type" of GraphNode.properties
UriKey == <<"u", "r", "i">>
FullTypeKey == <<"f", "u", "l", "l", "_", "t", "y", "p", "e">>

GraphNode(id, label, type, full_type) ==
    [id |-> id, label |-> label, type |-> type,
     properties |-> [k \in {UriKey, FullTypeKey} |->
                        IF k = UriKey THEN id ELSE full_type]]

GraphEdge(source, target, relationship, predicate_uri) ==
    [source |-> source, target |-> target, relationship |-> relationship,
     properties |-> [predicate_uri |-> predicate_uri]]

\* uri in nodes_dict (nodes_dict is kept as the list of its values, in
\* insertion order)
InDict(nodes, uri) == \E i \in 1..Len(nodes) : nodes[i].id = uri

\* nodes_dict[uri].properties[name] = value
SetProperty(nodes, uri, name, value) ==
    [i \in 1..Len(nodes) |->
        IF nodes[i].id = uri
        THEN [nodes[i] EXCEPT !.properties =
                 [k \in DOMAIN nodes[i].properties \cup {name} |->
                     IF k = name THEN value ELSE nodes[i].properties[k]]]
        ELSE nodes[i]]

\* the variant that writes the subject node without the 'not in nodes_dict'
\* test, replacing a node created by an earlier row
AddSubjectOverwrite(nodes, result) ==
    LET subject_uri == Get(result, "s", <<>>)
        subject_label == Get(result, "sLabel", extract_label_from_uri(subject_uri))
        subject_type == Get(result, "sType", Unknown)
        node == GraphNode(subject_uri, subject_label,
                          extract_class_name(subject_type), subject_type)
    IN  IF subject_uri = <<>> THEN nodes
        ELSE IF InDict(nodes, subject_uri)
        THEN [i \in 1..Len(nodes) |->
                 IF nodes[i].id = subject_uri THEN node ELSE nodes[i]]
        ELSE Append(nodes, node)

\* the subject part of one loop iteration of _process_graph_results
AddSubject(nodes, result) ==
    LET subject_uri == Get(result, "s", <<>>)
        subject_label == Get(result, "sLabel", extract_label_from_uri(subject_uri))
        subject_type == Get(result, "sType", Unknown)
    IN  IF subject_uri # <<>> /\ ~InDict(nodes, subject_uri)
        THEN Append(nodes, GraphNode(subject_uri, subject_label,
                                     extract_class_name(subject_type), subject_type))
        ELSE nodes

\* the variant that adds no node for an object
AddObjectNever(nodes, result) == nodes

\* the object part of one loop iteration
AddObject(nodes, result) ==
    LET object_uri == Get(result, "o", <<>>)
        object_label == Get(result, "oLabel", extract_label_from_uri(object_uri))
        object_type == Get(result, "oType", Unknown)
    IN  IF StartsWith(object_uri, Http) /\ ~InDict(nodes, object_uri)
        THEN Append(nodes, GraphNode(object_uri, object_label,
                                     extract_class_name(object_type), object_type))
        ELSE nodes

\* one loop iteration: acc is [nodes, edges]
ProcessRow(acc, result) ==
    LET subject_uri == Get(result, "s", <<>>)
        object_uri == Get(result, "o", <<>>)
        nodes2 == AddObject(AddSubject(acc.nodes, result), result)
        predicate_uri == Get(result, "p", <<>>)
        relationship_name == extract_relationship_name(predicate_uri)
    IN  IF subject_uri # <<>> /\ StartsWith(object_uri, Http)
        THEN [nodes |-> nodes2,
              edges |-> Append(acc.edges,
                               GraphEdge(subject_uri, object_uri,
                                         relationship_name, predicate_uri))]
        ELSE IF subject_uri # <<>> /\ ~StartsWith(object_uri, Http)
        THEN IF InDict(nodes2, subject_uri)
             THEN [nodes |-> SetProperty(nodes2, subject_uri,
                                         extract_relationship_name(predicate_uri),
                                         object_uri),
                   edges |-> acc.edges]
             ELSE [nodes |-> nodes2, edges |-> acc.edges]
        ELSE [nodes |-> nodes2, edges |-> acc.edges]

\* the variant that skips a row equal to an earlier one
RECURSIVE ProcessFromDedup(_, _, _)
ProcessFromDedup(rows, i, acc) ==
    IF i > Len(rows) THEN acc
    ELSE IF \E j \in 1..(i - 1) : rows[j] = rows[i]
    THEN ProcessFromDedup(rows, i + 1, acc)
    ELSE ProcessFromDedup(rows, i + 1, ProcessRow(acc, rows[i]))

RECURSIVE ProcessFrom(_, _, _)
ProcessFrom(rows, i, acc) ==
    IF i > Len(rows) THEN acc
    ELSE ProcessFrom(rows, i + 1, ProcessRow(acc, rows[i]))

\* _process_graph_results(results, query): the query is not read
process_graph_results(rows, q) ==
    ProcessFrom(rows, 1, [nodes |-> <<>>, edges |-> <<>>])

(***************************************************************************)
(* _calculate_graph_analytics.  A Python dict of counters is a function    *)
(* from its keys to naturals.                                              *)
(***************************************************************************)
EmptyDict == [k \in {} |-> 0]

\* d[k] = d.get(k, 0) + 1
Inc(d, k) ==
    [x \in DOMAIN d \cup {k} |->
        IF x = k THEN (IF k \in DOMAIN d THEN d[k] ELSE 0) + 1 ELSE d[x]]

RECURSIVE SumValues(_)
\* sum(d.values())
SumValues(d) ==
    IF DOMAIN d = {} THEN 0
    ELSE LET k == CHOOSE x \in DOMAIN d : TRUE
         IN  d[k] + SumValues([x \in DOMAIN d \ {k} |-> d[x]])

\* max(d.values()), d not empty
MaxValue(d) == CHOOSE m \in {d[k] : k \in DOMAIN d} : \A k \in DOMAIN d : d[k] <= m

\* round(num / den, digits) as an integer number of 1/scale, scale = 10^digits:
\* to the nearest, an exact tie to the even neighbour (Python's round on a
\* tie that a float represents exactly; no quotient of the bounded model is a
\* tie)
RoundScaled(num, den, scale) ==
    LET q == (num * scale) \div den
        r == (num * scale) % den
    IN  IF 2 * r < den THEN q
        ELSE IF 2 * r > den THEN q + 1
        ELSE IF q % 2 = 0 THEN q ELSE q + 1

RECURSIVE NodeTypesFrom(_, _, _)
NodeTypesFrom(nodes, i, d) ==
    IF i > Len(nodes) THEN d ELSE NodeTypesFrom(nodes, i + 1, Inc(d, nodes[i].type))

RECURSIVE RelationshipTypesFrom(_, _, _)
RelationshipTypesFrom(edges, i, d) ==
    IF i > Len(edges) THEN d
    ELSE RelationshipTypesFrom(edges, i + 1, Inc(d, edges[i].relationship))

RECURSIVE DegreeCountFrom(_, _, _)
DegreeCountFrom(edges, i, d) ==
    IF i > Len(edges) THEN d
    ELSE DegreeCountFrom(edges, i + 1, Inc(Inc(d, edges[i].source), edges[i].target))

\* the variant that counts a node only as the source of an edge
RECURSIVE SourceCountFrom(_, _, _)
SourceCountFrom(edges, i, d) ==
    IF i > Len(edges) THEN d
    ELSE SourceCountFrom(edges, i + 1, Inc(d, edges[i].source))

degree_count_sources_only(edges) == SourceCountFrom(edges, 1, EmptyDict)

\* the loop that fills degree_count
degree_count(edges) == DegreeCountFrom(edges, 1, EmptyDict)

\* avg_degree in hundredths, density in ten-thousandths
calculate_graph_analytics(nodes, edges) ==
    LET total_nodes == Len(nodes)
        total_edges == Len(edges)
        dc == degree_count(edges)
        n_dc == Cardinality(DOMAIN dc)
        \* total_nodes * (total_nodes - 1) / 2 if total_nodes > 1 else 1
        max_possible_edges ==
            IF total_nodes > 1 THEN (total_nodes * (total_nodes - 1)) \div 2 ELSE 1
    IN  [total_nodes |-> total_nodes,
         total_edges |-> total_edges,
         node_types |-> NodeTypesFrom(nodes, 1, EmptyDict),
         relationship_types |-> RelationshipTypesFrom(edges, 1, EmptyDict),
         avg_degree |-> IF n_dc > 0 THEN RoundScaled(SumValues(dc), n_dc, 100) ELSE 0,
         max_degree |-> IF n_dc > 0 THEN MaxValue(dc) ELSE 0,
         connected_components |-> 1,
         density |-> IF max_possible_edges > 0
                     THEN RoundScaled(total_edges, max_possible_edges, 10000)
                     ELSE 0]

(***************************************************************************)
(* SpecProject: _process_graph_results followed by                         *)
(* _calculate_graph_analytics (get_knowledge_graph, lines 49-52) on every  *)
(* sequence of at most MaxRows binding rows drawn from SampleRows.         *)
(***************************************************************************)
HttpX == Http \o <<":", "/", "/", "x", "/">>
UA == HttpX \o <<"a">>
UB == HttpX \o <<"b">>
UC == HttpX \o <<"c">>
UD == HttpX \o <<"d">>
\* URIs without a trailing segment
USlash == HttpX
UHashEnd == HttpX \o <<"a", "#">>
\* an absolute URI whose scheme is not http(s)
Urn == <<"u", "r", "n", ":", "x">>
\* predicates
PSize == HttpX \o <<"#", "h", "a", "s", "F", "i", "l", "e", "S", "i", "z", "e">>
PRel == HttpX \o <<"r", "e", "l">>
\* literals
Lit1024 == <<"1", "0", "2", "4">>
Lit2048 == <<"2", "0", "4", "8">>
LitHttpd == Http \o <<"d">>
\* labels and types
L1 == <<"L", "1">>
L2 == <<"L", "2">>
TFile == HttpX \o <<"#", "F", "i", "l", "e">>
TDoc == HttpX \o <<"D", "o", "c">>

Row(s, p, o, sLabel, oLabel, sType, oType) ==
    [s |-> s, p |-> p, o |-> o, sLabel |-> sLabel, oLabel |-> oLabel,
     sType |-> sType, oType |-> oType]

SampleRows ==
    { Row(UA, PRel, UB, None, None, None, None),
      Row(UB, PRel, UC, None, None, None, None),
      Row(UC, PRel, UD, None, None, None, None),
      Row(UA, PRel, UA, None, None, None, None),
      Row(UA, PRel, UB, L1, L2, TFile, TDoc),
      Row(UB, PSize, UA, L2, L1, TDoc, TFile),
      Row(UA, PSize, Lit1024, None, None, None, None),
      Row(UA, PSize, Lit2048, L1, None, TFile, None),
      Row(UA, PRel, LitHttpd, None, None, None, None),
      Row(UA, PRel, Urn, None, None, None, None),
      Row(Urn, PRel, UB, L1, None, None, None),
      Row(USlash, PSize, Lit1024, None, None, None, None),
      Row(UA, PRel, UHashEnd, None, None, None, None),
      Row(None, PRel, UB, None, None, None, None) }

SeqsUpTo(S, n) == UNION {[1..k -> S] : k \in 0..n}

InitProject ==
    /\ pc = "call"
    /\ arg \in [rows : SeqsUpTo(SampleRows, MaxRows)]
    /\ ret = None
    /\ query = None
    /\ sparql_query = None
    /\ gateway_calls = 0
    /\ results = <<>>
    /\ response = None

ProjectGraph ==
    /\ pc = "call"
    /\ LET g == process_graph_results(arg.rows, query)
       IN  ret' = [nodes |-> g.nodes, edges |-> g.edges,
                   analytics |-> calculate_graph_analytics(g.nodes, g.edges)]
    /\ pc' = "return"
    /\ UNCHANGED <<arg, query, sparql_query, gateway_calls, results, response>>

NextProject == ProjectGraph

SpecProject == InitProject /\ [][NextProject]_vars

(***************************************************************************)
(* Claims on graph projection and analytics (SpecProject).                 *)
(***************************************************************************)
NodeOf(nodes, id) == nodes[CHOOSE i \in 1..Len(nodes) : nodes[i].id = id]

SchemeChars ==
    {"a", "b", "c", "d", "e", "f", "g", "h", "i", "j", "k", "l", "m", "n", "o",
     "p", "q", "r", "s", "t", "u", "v", "w", "x", "y", "z"}

\* v matches the URI scheme pattern  letters ':' ...
HasScheme(v) ==
    \E i \in 2..Len(v) : v[i] = ":" /\ \A j \in 1..(i - 1) : v[j] \in SchemeChars

HttpScheme(v) ==
    \/ StartsWith(v, Http \o <<":">>)
    \/ StartsWith(v, Http \o <<"s", ":">>)

HasFileSize == <<"h", "a", "s", "F", "i", "l", "e", "S", "i", "z", "e">>

\* C2: a binding row whose object is a literal (no URI scheme) produces no
\* node for the object and no edge, and the value is stored in the subject
\* node's property bag under the predicate's local name (the last such row
\* of a subject and name decides the stored value); the single row
\* {s: http://x/a, p: http://x/#hasFileSize, o: 1024} yields exactly the node
\* http://x/a with hasFileSize = 1024 and no edge; every object with an
\* http(s) scheme becomes a node.
C2_LiteralsFoldIntoProperties ==
    pc = "return" =>
        /\ \A i \in 1..Len(arg.rows) :
              LET r == arg.rows[i]
                  key == LocalNameRule(r.p)
              IN  (r.s # None /\ r.o # None /\ ~HasScheme(r.o)) =>
                     /\ ~InDict(ret.nodes, r.o)
                     /\ \A e \in 1..Len(ret.edges) : ret.edges[e].target # r.o
                     /\ InDict(ret.nodes, r.s)
                     /\ key \in DOMAIN NodeOf(ret.nodes, r.s).properties
                     /\ (\A j \in (i + 1)..Len(arg.rows) :
                            ~(arg.rows[j].s = r.s
                              /\ LocalNameRule(arg.rows[j].p) = key))
                        => NodeOf(ret.nodes, r.s).properties[key] = r.o
        /\ arg.rows = <<Row(UA, PSize, Lit1024, None, None, None, None)>> =>
              /\ Len(ret.nodes) = 1
              /\ ret.nodes[1].id = UA
              /\ ret.nodes[1].properties[HasFileSize] = Lit1024
              /\ ret.edges = <<>>
        /\ \A i \in 1..Len(arg.rows) :
              (arg.rows[i].o # None /\ HttpScheme(arg.rows[i].o))
                  => InDict(ret.nodes, arg.rows[i].o)

\* the row r names the URI id as its subject, or as an object that the
\* projection takes for a URI
Appears(r, id) == r.s = id \/ (r.o = id /\ StartsWith(id, Http))

FirstRow(rows, id) ==
    CHOOSE k \in 1..Len(rows) :
        Appears(rows[k], id) /\ \A j \in 1..(k - 1) : ~Appears(rows[j], id)

ExpectedLabel(r, id) ==
    IF r.s = id THEN Get(r, "sLabel", LocalNameRule(id))
    ELSE Get(r, "oLabel", LocalNameRule(id))

ExpectedType(r, id) ==
    LET t == IF r.s = id THEN r.sType ELSE r.oType
    IN  IF t = None THEN Resource ELSE LocalNameRule(t)

C7_Density ==
    pc = "return" =>
        LET n == Len(ret.nodes)
            e == Len(ret.edges)
        IN  /\ ret.analytics.density =
                  IF n > 1 THEN RoundScaled(e, (n * (n - 1)) \div 2, 10000) ELSE 0
            /\ (n = 4 /\ e = 3 => ret.analytics.density = 5000)

\* the number of times the node id is the source or the target of an edge
Degree(edges, id) ==
    Cardinality({i \in 1..Len(edges) : edges[i].source = id})
    + Cardinality({i \in 1..Len(edges) : edges[i].target = id})

EdgeNodes(edges) ==
    {edges[i].source : i \in 1..Len(edges)} \cup {edges[i].target : i \in 1..Len(edges)}

\* C8: avg_degree is the sum of the degrees divided by the number of distinct
\* nodes that appear in an edge, rounded to 2 decimals, and max_degree the
\* largest degree among them; both are 0 without edges; the edges
\* [(A,B),(B,C)] give 1.33 and 2.
C8_DegreeStatistics ==
    pc = "return" =>
        LET E == ret.edges
            S == EdgeNodes(E)
            deg == [id \in S |-> Degree(E, id)]
        IN  /\ S = {} => ret.analytics.avg_degree = 0 /\ ret.analytics.max_degree = 0
            /\ S # {} =>
                  /\ ret.analytics.avg_degree =
                        RoundScaled(SumValues(deg), Cardinality(S), 100)
                  /\ \A id \in S : deg[id] <= ret.analytics.max_degree
                  /\ \E id \in S : deg[id] = ret.analytics.max_degree
            /\ ( /\ Len(E) = 2
                 /\ E[1].source = UA /\ E[1].target = UB
                 /\ E[2].source = UB /\ E[2].target = UC )
               => ret.analytics.avg_degree = 133 /\ ret.analytics.max_degree = 2

C8_Witness ==
    /\ pc = "return"
    /\ arg.rows = <<Row(UA, PRel, UB, None, None, None, None),
                    Row(UB, PRel, UC, None, None, None, None)>>
    /\ Len(ret.edges) = 2
    /\ ret.analytics.avg_degree = 133
    /\ ret.analytics.max_degree = 2

\* C10: every projected node has a non-empty label; a subject without a label
\* binding whose URI has no trailing segment is labelled with the URI itself.
C10_LabelNeverEmpty ==
    pc = "return" =>
        /\ \A i \in 1..Len(ret.nodes) : ret.nodes[i].label # <<>>
        /\ \A i \in 1..Len(ret.nodes) :
              LET n == ret.nodes[i]
                  r == arg.rows[FirstRow(arg.rows, n.id)]
              IN  (r.s = n.id /\ r.sLabel = None /\ LocalNameRule(n.id) = <<>>)
                      => n.label = n.id

(***************************************************************************)
(* Spec: one explore request, KnowledgeGraphService.get_knowledge_graph.   *)
(* The handler runs to its await of triplestore.query, the gateway returns *)
(* bindings or raises, and the handler runs to its end.  The generated     *)
(* SPARQL text is kept as a record of its kind and of the values           *)
(* interpolated into it.                                                   *)
(***************************************************************************)
\* the truth value of an Optional[str]
Truthy(v) == v # None /\ v # <<>>

Raise(error) == [raised |-> TRUE, error |-> error]
Return(value) == [raised |-> FALSE, value |-> value]

PathEndpointsRequired == "Path queries require both source_entity and target_entity"
SparqlQueryFailed == "SPARQL query failed"

\* the variant that caps the neighborhood rows at max_nodes
build_neighborhood_query_single_limit(q) ==
    Return([kind |-> "neighborhood",
            center_filter |-> IF Truthy(q.center_entity) THEN q.center_entity ELSE None,
            limit |-> q.max_nodes])

build_neighborhood_query(q) ==
    Return([kind |-> "neighborhood",
            center_filter |-> IF Truthy(q.center_entity) THEN q.center_entity ELSE None,
            limit |-> q.max_nodes * 2])

\* the variant that tests the source endpoint only
build_path_query_source_only(q) ==
    IF ~Truthy(q.source_entity)
    THEN Raise(PathEndpointsRequired)
    ELSE Return([kind |-> "path", source |-> q.source_entity,
                 target |-> q.target_entity, limit |-> q.max_nodes])

build_path_query(q) ==
    IF ~Truthy(q.source_entity) \/ ~Truthy(q.target_entity)
    THEN Raise(PathEndpointsRequired)
    ELSE Return([kind |-> "path", source |-> q.source_entity,
                 target |-> q.target_entity, limit |-> q.max_nodes])

build_cluster_query(q) == Return([kind |-> "cluster", limit |-> q.max_nodes])

build_full_graph_query(q) == Return([kind |-> "full", limit |-> q.max_nodes])

\* lines 35-42
BuildQuery(q) ==
    IF q.query_type = "neighborhood" THEN build_neighborhood_query(q)
    ELSE IF q.query_type = "path" THEN build_path_query(q)
    ELSE IF q.query_type = "cluster" THEN build_cluster_query(q)
    ELSE build_full_graph_query(q)

\* raise HTTPException(status_code=500, detail=f"Graph query failed: {str(e)}")
GraphQueryFailed(error) ==
    [status |-> "error", status_code |-> 500,
     detail |-> <<"Graph query failed", error>>]

\* GraphQuery: max_nodes at its least and its default value
MaxNodesValues == {10, 100}

GraphQueries ==
    [query_type : {"neighborhood", "path", "cluster", "full"},
     center_entity : {None, UA},
     source_entity : {None, <<>>, UA},
     target_entity : {None, <<>>, UB},
     depth : {2},
     include_literals : BOOLEAN,
     max_nodes : MaxNodesValues]

Init ==
    /\ pc = "start"
    /\ query \in GraphQueries
    /\ sparql_query = None
    /\ gateway_calls = 0
    /\ results = <<>>
    /\ response = None
    /\ arg = None
    /\ ret = None

\* query building raises: the except clause turns it into the HTTP error
ExploreBuildFails ==
    /\ pc = "start"
    /\ BuildQuery(query).raised
    /\ response' = GraphQueryFailed(BuildQuery(query).error)
    /\ pc' = "failed"
    /\ UNCHANGED <<query, sparql_query, gateway_calls, results, arg, ret>>

\* the query is built and handed to triplestore.query
ExploreSendQuery ==
    /\ pc = "start"
    /\ ~BuildQuery(query).raised
    /\ sparql_query' = BuildQuery(query).value
    /\ gateway_calls' = gateway_calls + 1
    /\ pc' = "await_query"
    /\ UNCHANGED <<query, results, response, arg, ret>>

\* the gateway returns bindings: projection, analytics, response
GatewayReturns ==
    /\ pc = "await_query"
    /\ \E rows \in SeqsUpTo(SampleRows, MaxBindings) :
          /\ results' = rows
          /\ LET g == process_graph_results(rows, query)
             IN  response' =
                    [status |-> "success",
                     graph |-> [nodes |-> g.nodes, edges |-> g.edges],
                     analytics |-> calculate_graph_analytics(g.nodes, g.edges),
                     query_info |-> [query_type |-> query.query_type,
                                     center_entity |-> query.center_entity,
                                     depth |-> query.depth,
                                     total_results |-> Len(rows)]]
    /\ pc' = "done"
    /\ UNCHANGED <<query, sparql_query, gateway_calls, arg, ret>>

\* triplestore.query raises
GatewayRaises ==
    /\ pc = "await_query"
    /\ response' = GraphQueryFailed(SparqlQueryFailed)
    /\ pc' = "failed"
    /\ UNCHANGED <<query, sparql_query, gateway_calls, results, arg, ret>>

Next == ExploreBuildFails \/ ExploreSendQuery \/ GatewayReturns \/ GatewayRaises

Spec == Init /\ [][Next]_vars

(***************************************************************************)
(* Claims on the explore request (Spec).                                   *)
(***************************************************************************)
Missing(v) == v = None \/ v = <<>>

\* C1: an explore request with query_type "path" whose source_entity or
\* target_entity is missing (null or empty) ends in the validation error and
\* never invokes the gateway's query operation.
C1_PathValidation ==
    (query.query_type = "path"
     /\ (Missing(query.source_entity) \/ Missing(query.target_entity))) =>
        /\ gateway_calls = 0
        /\ sparql_query = None
        /\ pc \in {"start", "failed"}
        /\ pc = "failed" =>
              /\ response.status = "error"
              /\ response.detail[2] = PathEndpointsRequired

C1_Witness ==
    /\ pc = "failed"
    /\ query.query_type = "path"
    /\ query.source_entity = UA
    /\ query.target_entity = <<>>
    /\ gateway_calls = 0
    /\ response.detail[2] = PathEndpointsRequired

(***************************************************************************)
(* UnifiedSearchQuery.has_advanced_filters (SpecFilters).                  *)
(***************************************************************************)
\* the truth value of an Optional[int]
TruthyInt(v) == v # {} /\ v # {0}

has_advanced_filters(q) ==
    \/ Truthy(q.file_types)
    \/ Truthy(q.wdo_classes)
    \/ Truthy(q.tags)
    \/ Truthy(q.author)
    \/ q.date_from # {}
    \/ q.date_to # {}
    \/ TruthyInt(q.min_file_size)
    \/ TruthyInt(q.max_file_size)
    \/ q.has_content # {}

Optional(S) == {{}} \cup {{v} : v \in S}

Py == <<"p", "y">>
Doc == <<"D", "o", "c">>
Demo == <<"d", "e", "m", "o">>
Bob == <<"b", "o", "b">>

UnifiedSearchQueries ==
    [query : {Demo},
     search_type : {"hybrid"},
     limit : {20},
     offset : {0},
     file_types : {None, <<>>, <<Py>>},
     wdo_classes : {None, <<>>, <<Doc>>},
     tags : {None, <<>>, <<Demo>>},
     author : {None, <<>>, Bob},
     date_from : Optional({"2024-01-01"}),
     date_to : Optional({"2024-12-31"}),
     min_file_size : Optional(0..MaxFileSize),
     max_file_size : Optional(0..MaxFileSize),
     has_content : Optional(BOOLEAN)]

InitFilters ==
    /\ pc = "call"
    /\ arg \in UnifiedSearchQueries
    /\ ret = None
    /\ query = None
    /\ sparql_query = None
    /\ gateway_calls = 0
    /\ results = <<>>
    /\ response = None

HasAdvancedFilters ==
    /\ pc = "call"
    /\ ret' = has_advanced_filters(arg)
    /\ pc' = "return"
    /\ UNCHANGED <<arg, query, sparql_query, gateway_calls, results, response>>

NextFilters == HasAdvancedFilters

SpecFilters == InitFilters /\ [][NextFilters]_vars

\* C4: has_advanced_filters() is true if and only if at least one of
\* file_types, wdo_classes, tags, author, date_from, date_to, min_file_size,
\* max_file_size, has_content is set (non-null), for every allowed value
\* (a size of 0, an empty list and an empty author included).
C4_AdvancedFiltersIffSet ==
    pc = "return" =>
        (ret <=> \/ arg.file_types # None
                 \/ arg.wdo_classes # None
                 \/ arg.tags # None
                 \/ arg.author # None
                 \/ arg.date_from # {}
                 \/ arg.date_to # {}
                 \/ arg.min_file_size # {}
                 \/ arg.max_file_size # {}
                 \/ arg.has_content # {})

(***************************************************************************)
(* UnifiedSearchService._calculate_relevance (SpecRelevance).  The score   *)
(* is kept in tenths: the code adds the floats 0.4, 0.1, 0.3, 0.2, 0.1 in  *)
(* this order, and the float sums differ from the tenths by less than      *)
(* 1e-15.                                                                  *)
(***************************************************************************)
UpperLetters ==
    <<"A", "B", "C", "D", "E", "F", "G", "H", "I", "J", "K", "L", "M",
      "N", "O", "P", "Q", "R", "S", "T", "U", "V", "W", "X", "Y", "Z">>

LowerLetters ==
    <<"a", "b", "c", "d", "e", "f", "g", "h", "i", "j", "k", "l", "m",
      "n", "o", "p", "q", "r", "s", "t", "u", "v", "w", "x", "y", "z">>

LowerChar(c) ==
    IF \E i \in 1..Len(UpperLetters) : UpperLetters[i] = c
    THEN LowerLetters[CHOOSE i \in 1..Len(UpperLetters) : UpperLetters[i] = c]
    ELSE c

\* s.lower(): character by character; the lower case of "U+0130" (capital I
\* with dot above) is the two characters i and "U+0307" (combining dot above),
\* so the result can be longer than s
RECURSIVE Lower(_)
Lower(s) ==
    IF Len(s) = 0
    THEN <<>>
    ELSE IF Len(s) = 1
         THEN (IF s[1] = "U+0130" THEN <<"i", "U+0307">> ELSE <<LowerChar(s[1])>>)
         ELSE LET half == Len(s) \div 2
              IN  Lower(SubSeq(s, 1, half)) \o Lower(SubSeq(s, half + 1, Len(s)))

\* the variant that tests s.startswith(p)
IsPrefixOf(p, s) == Len(p) <= Len(s) /\ SubSeq(s, 1, Len(p)) = p

\* p in s
IsSubstring(p, s) ==
    \E i \in 0..(Len(s) - Len(p)) : SubSeq(s, i + 1, i + Len(p)) = p

\* min(a, b)
Min(a, b) == IF a <= b THEN a ELSE b

\* the variant without the prefix bonus
calculate_relevance_no_bonus(result, query_text) ==
    LET query_lower == Lower(query_text)
        file_name == Lower(Get(result, "fileName", <<>>))
        title == Get(result, "title", <<>>)
        description == Get(result, "description", <<>>)
        tag == Get(result, "tag", <<>>)
    IN  Min((IF IsSubstring(query_lower, file_name) THEN 4 ELSE 0)
            + (IF title # <<>> /\ IsSubstring(query_lower, Lower(title)) THEN 3 ELSE 0)
            + (IF description # <<>> /\ IsSubstring(query_lower, Lower(description))
               THEN 2 ELSE 0)
            + (IF tag # <<>> /\ IsSubstring(query_lower, Lower(tag)) THEN 1 ELSE 0),
            10)

\* the variant without the cap min(score, 1.0)
calculate_relevance_uncapped(result, query_text) ==
    LET query_lower == Lower(query_text)
        file_name == Lower(Get(result, "fileName", <<>>))
        title == Get(result, "title", <<>>)
        description == Get(result, "description", <<>>)
        tag == Get(result, "tag", <<>>)
    IN  (IF IsSubstring(query_lower, file_name)
         THEN 4 + (IF StartsWith(file_name, query_lower) THEN 1 ELSE 0)
         ELSE 0)
        + (IF title # <<>> /\ IsSubstring(query_lower, Lower(title)) THEN 3 ELSE 0)
        + (IF description # <<>> /\ IsSubstring(query_lower, Lower(description))
           THEN 2 ELSE 0)
        + (IF tag # <<>> /\ IsSubstring(query_lower, Lower(tag)) THEN 1 ELSE 0)

\* the variant that scores the file name only
calculate_relevance_file_name_only(result, query_text) ==
    IF IsSubstring(Lower(query_text), Lower(Get(result, "fileName", <<>>)))
    THEN 4
    ELSE 0

\* the score in tenths
calculate_relevance(result, query_text) ==
    LET query_lower == Lower(query_text)
        file_name == Lower(Get(result, "fileName", <<>>))
        title == Get(result, "title", <<>>)
        description == Get(result, "description", <<>>)
        tag == Get(result, "tag", <<>>)
        score1 == IF IsSubstring(query_lower, file_name)
                  THEN 4 + (IF StartsWith(file_name, query_lower) THEN 1 ELSE 0)
                  ELSE 0
        score2 == IF title # <<>> /\ IsSubstring(query_lower, Lower(title))
                  THEN score1 + 3 ELSE score1
        score3 == IF description # <<>> /\ IsSubstring(query_lower, Lower(description))
                  THEN score2 + 2 ELSE score2
        score4 == IF tag # <<>> /\ IsSubstring(query_lower, Lower(tag))
                  THEN score3 + 1 ELSE score3
    IN  Min(score4, 10)

\* one binding row of a search query
SearchRow(fileName, title, description, tag) ==
    [asset |-> None, fileName |-> fileName, title |-> title,
     description |-> description, fileSize |-> None, mimeType |-> None,
     author |-> None, created |-> None, type |-> None, tag |-> tag]

DemoPy == Demo \o <<".">> \o Py
MyDemoPy == <<"m", "y", "_">> \o DemoPy
NotesMd == <<"n", "o", "t", "e", "s", ".", "m", "d">>
DemoProject == <<"D", "e", "m", "o", " ", "P", "r", "o", "j", "e", "c", "t">>
Notes == <<"N", "o", "t", "e", "s">>
ADemo == <<"a", " ", "D", "E", "M", "O">>
Text == <<"t", "e", "x", "t">>

SearchRows ==
    {SearchRow(f, t, d, g) :
        f \in {None, DemoPy, MyDemoPy, NotesMd},
        t \in {None, <<>>, DemoProject, Notes},
        d \in {None, ADemo, Text},
        g \in {None, Demo, Py}}

\* UnifiedSearchQuery.query: min_length=1
QueryTexts == {Demo, <<"D", "e">>, Py}

InitRelevance ==
    /\ pc = "call"
    /\ arg \in [result : SearchRows, query_text : QueryTexts]
    /\ ret = None
    /\ query = None
    /\ sparql_query = None
    /\ gateway_calls = 0
    /\ results = <<>>
    /\ response = None

CalculateRelevance ==
    /\ pc = "call"
    /\ ret' = calculate_relevance(arg.result, arg.query_text)
    /\ pc' = "return"
    /\ UNCHANGED <<arg, query, sparql_query, gateway_calls, results, response>>

NextRelevance == CalculateRelevance

SpecRelevance == InitRelevance /\ [][NextRelevance]_vars

(***************************************************************************)
(* Claims on the relevance score (SpecRelevance), scores in tenths.        *)
(***************************************************************************)
\* C5 as stated: for the query "demo" the row with filename "demo.py" and no
\* title, description or tag scores 0.4, and the same row with title
\* "Demo Project" scores 0.7.
C5_ExampleScoresAsStated ==
    (pc = "return" /\ arg.query_text = Demo) =>
        /\ arg.result = SearchRow(DemoPy, None, None, None) => ret = 4
        /\ arg.result = SearchRow(DemoPy, DemoProject, None, None) => ret = 7

\* C5 amended: for the query "demo" the row with filename "demo.py" and no
\* title, description or tag scores 0.5 (the filename match and the prefix
\* bonus), and the same row with title "Demo Project" scores 0.8.
C5_ExampleScores ==
    (pc = "return" /\ arg.query_text = Demo) =>
        /\ arg.result = SearchRow(DemoPy, None, None, None) => ret = 5
        /\ arg.result = SearchRow(DemoPy, DemoProject, None, None) => ret = 8

C5_Witness ==
    /\ pc = "return"
    /\ arg.query_text = Demo
    /\ arg.result = SearchRow(DemoPy, DemoProject, None, None)
    /\ ret = 8

\* the field is bound and contains the query, letter case ignored
MatchesField(field, q) ==
    /\ field # None
    /\ \E i \in 0..(Len(field) - Len(q)) :
          \A k \in 1..Len(q) : LowerChar(field[i + k]) = LowerChar(q[k])

PrefixField(field, q) ==
    /\ field # None
    /\ Len(q) <= Len(field)
    /\ \A k \in 1..Len(q) : LowerChar(field[k]) = LowerChar(q[k])

Indicator(b) == IF b THEN 1 ELSE 0

\* every field that matches in r1 matches in r2 (r2 is r1 with non-matching
\* fields turned into matching ones)
MatchesAtLeast(r2, r1, q) ==
    /\ MatchesField(r1.fileName, q) => MatchesField(r2.fileName, q)
    /\ PrefixField(r1.fileName, q) => PrefixField(r2.fileName, q)
    /\ MatchesField(r1.title, q) => MatchesField(r2.title, q)
    /\ MatchesField(r1.description, q) => MatchesField(r2.description, q)
    /\ MatchesField(r1.tag, q) => MatchesField(r2.tag, q)

\* C6: the score is min(1.0, 0.4 [filename contains query] + 0.1 [filename
\* starts with query] + 0.3 [title contains] + 0.2 [description contains]
\* + 0.1 [tag contains]), case-insensitive; it lies in [0, 1]; and a row
\* that matches wherever another row matches never scores less.
C6_RelevanceFormula ==
    pc = "return" =>
        LET r == arg.result
            q == arg.query_text
        IN  /\ ret = Min(10, 4 * Indicator(MatchesField(r.fileName, q))
                             + Indicator(PrefixField(r.fileName, q))
                             + 3 * Indicator(MatchesField(r.title, q))
                             + 2 * Indicator(MatchesField(r.description, q))
                             + Indicator(MatchesField(r.tag, q)))
            /\ 0 <= ret /\ ret <= 10
            /\ \A r2 \in SearchRows :
                  MatchesAtLeast(r2, r, q) => calculate_relevance(r2, q) >= ret

\* every field matches: the sum 1.1 is capped at 1.0
C6_Witness ==
    /\ pc = "return"
    /\ arg.query_text = <<"D", "e">>
    /\ arg.result = SearchRow(DemoPy, DemoProject, ADemo, Demo)
    /\ ret = 10

\* ------------------------------------------------------------------------
\* UnifiedSearchService._generate_suggestions (search.py)
\* ------------------------------------------------------------------------

\* [:5] in "return list(set(suggestions))[:5]"
SuggestionLimit == 5

\* the variant of the loop that compares the label with the query as written
suggestions_from_case_sensitive(rows, query_text) ==
    SelectSeq([i \in 1..Len(rows) |-> Get(rows[i], "label", <<>>)],
              LAMBDA label : label # <<>> /\ label # query_text)

\* the loop over the bindings: labels that are non-empty and differ from the
\* query when both are lower-cased, in row order
suggestions_from(rows, query_text) ==
    SelectSeq([i \in 1..Len(rows) |-> Get(rows[i], "label", <<>>)],
              LAMBDA label : label # <<>> /\ Lower(label) # Lower(query_text))

\* set(suggestions)
ToSet(s) == {s[i] : i \in DOMAIN s}

\* list(set(suggestions))[:5]: the iteration order of a set of str is not
\* fixed (it follows the per-process string hash), so every arrangement of
\* every choice of at most five distinct members is a possible value
list_set_prefix(suggestions) ==
    LET S == ToSet(suggestions)
        m == Min(SuggestionLimit, Cardinality(S))
    IN  {f \in [1..m -> S] : \A i, j \in 1..m : f[i] = f[j] => i = j}

\* --- a specification that applies _generate_suggestions to label rows ---

\* how many times the gateway repeats its list of labels
MaxCopies == 2

\* the bindings of "SELECT DISTINCT ?label": the first k of six labels that
\* contain the query and differ from it, then labels the loop must drop (the
\* query in either case, the empty label, an unbound label), the whole list
\* repeated up to MaxCopies times
LabelRowLists ==
    LET labels == [i \in 1..6 |-> Demo \o <<<<"1", "2", "3", "4", "5", "6">>[i]>>]
        dropped == {<<>>, <<Demo>>, <<<<"D", "E", "M", "O">>>>, <<<<>>>>, <<None>>,
                    <<<<"D", "E", "M", "O">>, <<>>, None, Demo>>}
    IN  {[i \in 1..(c * Len(l)) |-> [label |-> l[((i - 1) % Len(l)) + 1]]] :
            l \in {SubSeq(labels, 1, k) \o d : k \in 0..Len(labels), d \in dropped},
            c \in 1..MaxCopies}

InitSuggestions ==
    /\ pc = "call"
    /\ arg \in [query_text : {Demo, <<"D", "e">>}, rows : LabelRowLists]
    /\ ret = None
    /\ query = None
    /\ sparql_query = None
    /\ gateway_calls = 0
    /\ results = <<>>
    /\ response = None

\* the gateway returns arg.rows as the bindings of the suggestions query
GenerateSuggestions ==
    /\ pc = "call"
    /\ ret' \in list_set_prefix(suggestions_from(arg.rows, arg.query_text))
    /\ pc' = "return"
    /\ UNCHANGED <<query, sparql_query, gateway_calls, results, response, arg>>

\* the gateway raises: the except clause logs, suggestions is still []
GenerateSuggestionsGatewayRaises ==
    /\ pc = "call"
    /\ ret' \in list_set_prefix(<<>>)
    /\ pc' = "failed_silently"
    /\ UNCHANGED <<query, sparql_query, gateway_calls, results, response, arg>>

NextSuggestions == GenerateSuggestions \/ GenerateSuggestionsGatewayRaises

SpecSuggestions == InitSuggestions /\ [][NextSuggestions]_vars

\* C11: whatever label rows the gateway returns (any length, duplicates, any
\* letter case), the list returned by _generate_suggestions has no entry
\* equal to the full query when both are compared case-insensitively, no
\* entry twice, and at most 5 entries.
C11_SuggestionsFiltered ==
    pc \in {"return", "failed_silently"} =>
        /\ \A i \in 1..Len(ret) : Lower(ret[i]) # Lower(arg.query_text)
        /\ \A i, j \in 1..Len(ret) : i # j => ret[i] # ret[j]
        /\ Len(ret) <= 5

\* more than five distinct labels, each twice, the query itself in upper case
\* among them, and five suggestions returned
C11_Witness ==
    /\ pc = "return"
    /\ arg.query_text = Demo
    /\ Len(arg.rows) > 12
    /\ \E i \in 1..Len(arg.rows) : arg.rows[i].label = <<"D", "E", "M", "O">>
    /\ \E i, j \in 1..Len(arg.rows) : i # j /\ arg.rows[i] = arg.rows[j]
    /\ Len(ret) = 5

\* ------------------------------------------------------------------------
\* UnifiedSearchService.search (search.py): one search request
\* ------------------------------------------------------------------------

\* the variant that builds the textual query for a hybrid search
build_basic_search_query_hybrid_textual(q) ==
    IF q.search_type \in {"textual", "hybrid"}
    THEN [kind |-> "textual", query_text |-> q.query,
          filter_fields |-> <<"fileName", "title", "description">>,
          order_by |-> <<>>,
          limit |-> q.limit, offset |-> q.offset]
    ELSE [kind |-> "semantic", query_text |-> q.query,
          filter_fields |-> <<"fileName", "title", "description", "tag",
                              "type", "mimeType">>,
          order_by |-> <<[field |-> "fileName", weight |-> 4],
                         [field |-> "title", weight |-> 3],
                         [field |-> "description", weight |-> 2],
                         [field |-> "tag", weight |-> 1]>>,
          limit |-> q.limit, offset |-> q.offset]

\* _build_basic_search_query: hybrid runs the semantic query; the text of the
\* two queries differs in the fields of the FILTER and in the ordering
build_basic_search_query(q) ==
    IF q.search_type = "textual"
    THEN [kind |-> "textual", query_text |-> q.query,
          filter_fields |-> <<"fileName", "title", "description">>,
          order_by |-> <<>>,
          limit |-> q.limit, offset |-> q.offset]
    ELSE [kind |-> "semantic", query_text |-> q.query,
          filter_fields |-> <<"fileName", "title", "description", "tag",
                              "type", "mimeType">>,
          order_by |-> <<[field |-> "fileName", weight |-> 4],
                         [field |-> "title", weight |-> 3],
                         [field |-> "description", weight |-> 2],
                         [field |-> "tag", weight |-> 1]>>,
          limit |-> q.limit, offset |-> q.offset]

\* _build_advanced_search_query: the FILTER is the conjunction of the clauses
\* appended for the fields that are truthy, in this order
build_advanced_search_query(q) ==
    LET semantic == Truthy(q.query) /\ q.search_type = "semantic"
        clause(cond, c) == IF cond THEN <<c>> ELSE <<>>
        filters ==
            clause(Truthy(q.query),
                   [on |-> "text", value |-> q.query,
                    fields |-> IF q.search_type = "semantic"
                               THEN <<"fileName", "title", "description", "tag">>
                               ELSE <<"fileName", "title", "description">>])
            \o clause(Truthy(q.wdo_classes), [on |-> "type", any_of |-> q.wdo_classes])
            \o clause(Truthy(q.file_types), [on |-> "fileName", suffix_any_of |-> q.file_types])
            \o clause(Truthy(q.author), [on |-> "author", contains |-> q.author])
            \o clause(TruthyInt(q.min_file_size), [on |-> "fileSize", ge |-> q.min_file_size])
            \o clause(TruthyInt(q.max_file_size), [on |-> "fileSize", le |-> q.max_file_size])
            \o clause(q.date_from # {}, [on |-> "created", ge |-> q.date_from])
            \o clause(q.date_to # {}, [on |-> "created", le |-> q.date_to])
            \o clause(Truthy(q.tags), [on |-> "tag", contains_any_of |-> q.tags])
    IN  [kind |-> "advanced", query_text |-> q.query, filters |-> filters,
         order_by |-> IF semantic
                      THEN <<[field |-> "fileName", weight |-> 4],
                             [field |-> "title", weight |-> 3],
                             [field |-> "description", weight |-> 2]>>
                      ELSE <<>>,
         limit |-> q.limit, offset |-> q.offset]

\* _extract_highlights: one entry per matching field, in the order file name,
\* title, description, tag; the description entry is the window of 100
\* characters that starts 30 characters before the first match
extract_highlights(result, query_text) ==
    LET query_lower == Lower(query_text)
        file_name == Get(result, "fileName", <<>>)
        title == Get(result, "title", <<>>)
        description == Get(result, "description", <<>>)
        tag == Get(result, "tag", <<>>)
        desc_lower == Lower(description)
        find == CHOOSE i \in 0..Len(desc_lower) :
                    /\ SubSeq(desc_lower, i + 1, i + Len(query_lower)) = query_lower
                    /\ \A j \in 0..(i - 1) :
                          SubSeq(desc_lower, j + 1, j + Len(query_lower)) # query_lower
        start == IF find - 30 > 0 THEN find - 30 ELSE 0
        end == Min(Len(description), start + 100)
        dots == <<".", ".", ".">>
        snippet == (IF start > 0 THEN dots ELSE <<>>)
                   \o SubSeq(description, start + 1, end)
                   \o (IF end < Len(description) THEN dots ELSE <<>>)
    IN  (IF IsSubstring(query_lower, Lower(file_name))
         THEN <<[field |-> "fileName", text |-> file_name]>> ELSE <<>>)
        \o (IF title # <<>> /\ IsSubstring(query_lower, Lower(title))
            THEN <<[field |-> "title", text |-> title]>> ELSE <<>>)
        \o (IF description # <<>> /\ IsSubstring(query_lower, desc_lower)
            THEN <<[field |-> "description", text |-> snippet]>> ELSE <<>>)
        \o (IF tag # <<>> /\ IsSubstring(query_lower, Lower(tag))
            THEN <<[field |-> "tag", text |-> tag]>> ELSE <<>>)

Digits == <<"0", "1", "2", "3", "4", "5", "6", "7", "8", "9">>

\* int(s) for a str s: a run of decimal digits (Raise otherwise)
RECURSIVE ParseInt(_)
ParseInt(s) ==
    IF s = <<>> \/ \E i \in 1..Len(s) : \A d \in 1..10 : Digits[d] # s[i]
    THEN Raise("invalid literal for int()")
    ELSE IF Len(s) = 1
         THEN Return((CHOOSE d \in 1..10 : Digits[d] = s[1]) - 1)
         ELSE Return(10 * ParseInt(SubSeq(s, 1, Len(s) - 1)).value
                     + ParseInt(<<s[Len(s)]>>).value)

\* created_at: datetime.fromisoformat of the created value (with T00:00:00
\* appended when it has no "T"), datetime(2024, 1, 1) when that raises or the
\* variable is unbound; a value parses when it reads dddd-dd-ddTdd:dd:dd
parse_created(result) ==
    LET default == <<"2", "0", "2", "4", "-", "0", "1", "-", "0", "1",
                     "T", "0", "0", ":", "0", "0", ":", "0", "0">>
        created_str == Get(result, "created", default)
        text == IF Contains(created_str, "T")
                THEN created_str
                ELSE created_str \o SubSeq(default, 11, 19)
        shape(c) == IF \E d \in 1..10 : Digits[d] = c THEN "d" ELSE c
    IN  IF [i \in 1..Len(text) |-> shape(text[i])]
           = [i \in 1..19 |-> shape(default[i])]
        THEN text
        ELSE default

\* _process_search_result: the SearchResult of one binding row, or the
\* exception raised by int() on a fileSize that is not a number
process_search_result(result, query_text) ==
    LET asset_uri == Get(result, "asset", <<>>)
        file_name == Get(result, "fileName", <<>>)
        class_uri == Get(result, "type", <<>>)
        file_size == IF result.fileSize = None THEN Return(0)
                     ELSE ParseInt(result.fileSize)
    IN  IF file_size.raised
        THEN file_size
        ELSE Return(
            [asset_id |-> IF asset_uri # <<>> THEN Last(Split(asset_uri, "/"))
                          ELSE <<"u", "n", "k", "n", "o", "w", "n">>,
             file_name |-> file_name,
             title |-> result.title,
             description |-> result.description,
             file_type |-> IF Contains(file_name, ".")
                           THEN Lower(Last(Split(file_name, ".")))
                           ELSE <<"u", "n", "k", "n", "o", "w", "n">>,
             mime_type |-> Get(result, "mimeType", <<>>),
             file_size |-> file_size.value,
             author |-> result.author,
             tags |-> IF Truthy(result.tag) THEN <<result.tag>> ELSE <<>>,
             wdo_classes |-> <<IF Contains(class_uri, "#")
                               THEN Last(Split(class_uri, "#"))
                               ELSE IF Contains(class_uri, "/")
                                    THEN Last(Split(class_uri, "/"))
                                    ELSE class_uri>>,
             created_at |-> parse_created(result),
             relevance_score |-> calculate_relevance(result, query_text),
             highlights |-> extract_highlights(result, query_text)])
\* except Exception in search: HTTPException(500, "Search failed: ...")
SearchFailed(error) ==
    [status |-> "error", status_code |-> 500, detail |-> <<"Search failed", error>>]

\* the SearchResponse of a request whose rows were all processed
SearchSucceeded(q, search_mode, search_results, suggestions) ==
    [status |-> "success",
     message |-> [found |-> Len(search_results),
                  with_filters |-> search_mode = "advanced"],
     results |-> search_results,
     total_results |-> Len(search_results),
     suggestions |-> suggestions,
     data |-> [search_mode |-> search_mode, search_type |-> q.search_type,
               filters_applied |-> has_advanced_filters(q)]]

\* the requests of the search lifecycle: basic ones (no filter, or a filter
\* that is set to a falsy value) and advanced ones
SearchRequests ==
    {q \in [query : {Demo},
            search_type : {"semantic", "textual", "hybrid"},
            limit : {20}, offset : {0},
            file_types : {None, <<Py>>}, wdo_classes : {None}, tags : {None},
            author : {None}, date_from : {{}}, date_to : {{}},
            min_file_size : {{}}, max_file_size : Optional(0..MaxFileSize),
            has_content : {{}}] :
        q.file_types = None \/ q.max_file_size = {}}

\* binding rows of the primary query: every variable bound; only the
\* mandatory ones bound; nothing bound; a date without time; a fileSize that
\* is not a number
SearchSampleRows ==
    LET full == [SearchRow(DemoPy, DemoProject, ADemo, Demo) EXCEPT
                    !.asset = UA, !.fileSize = <<"1", "0", "2", "4">>,
                    !.mimeType = Text, !.author = Bob, !.type = TDoc,
                    !.created = <<"2", "0", "2", "4", "-", "0", "5", "-", "0", "2",
                                  "T", "1", "0", ":", "3", "0", ":", "0", "0">>]
    IN  {full,
         [SearchRow(NotesMd, None, None, None) EXCEPT !.asset = UB],
         SearchRow(None, None, None, None),
         [full EXCEPT !.created = <<"2", "0", "2", "4", "-", "0", "5", "-", "0", "2">>],
         [full EXCEPT !.fileSize = <<"1", "k">>]}

InitSearch ==
    /\ pc = "search"
    /\ query \in SearchRequests
    /\ sparql_query = None
    /\ gateway_calls = 0
    /\ results = <<>>
    /\ response = None
    /\ arg = None
    /\ ret = None

\* the variant that treats every request as a basic search after building
SearchSendQueryBasicMode ==
    /\ pc = "search"
    /\ sparql_query' = IF has_advanced_filters(query)
                       THEN build_advanced_search_query(query)
                       ELSE build_basic_search_query(query)
    /\ arg' = [search_mode |-> "basic", search_results |-> <<>>]
    /\ gateway_calls' = gateway_calls + 1
    /\ pc' = "await_primary"
    /\ UNCHANGED <<query, results, response, ret>>

\* search() up to its first await: choose the mode, build the query, call
\* triplestore.query
SearchSendQuery ==
    /\ pc = "search"
    /\ LET search_mode == IF has_advanced_filters(query) THEN "advanced" ELSE "basic"
       IN  /\ sparql_query' = IF search_mode = "advanced"
                              THEN build_advanced_search_query(query)
                              ELSE build_basic_search_query(query)
           /\ arg' = [search_mode |-> search_mode, search_results |-> <<>>]
    /\ gateway_calls' = gateway_calls + 1
    /\ pc' = "await_primary"
    /\ UNCHANGED <<query, results, response, ret>>

\* the primary query returns its bindings: every row is processed; then a
\* basic search calls triplestore.query again from _generate_suggestions, an
\* advanced search returns; an exception from a row ends the request
SearchPrimaryReturns ==
    /\ pc = "await_primary"
    /\ \E rows \in SeqsUpTo(SearchSampleRows, MaxRows) :
        LET processed == [i \in 1..Len(rows) |->
                             process_search_result(rows[i], query.query)]
            search_results == [i \in 1..Len(rows) |-> processed[i].value]
        IN  /\ results' = rows
            /\ IF \E i \in 1..Len(rows) : processed[i].raised
               THEN /\ response' = SearchFailed(
                           processed[CHOOSE i \in 1..Len(rows) :
                               /\ processed[i].raised
                               /\ \A j \in 1..(i - 1) : ~processed[j].raised].error)
                    /\ pc' = "search_failed"
                    /\ UNCHANGED <<arg, gateway_calls>>
               ELSE IF arg.search_mode = "basic"
               THEN /\ arg' = [arg EXCEPT !.search_results = search_results]
                    /\ gateway_calls' = gateway_calls + 1
                    /\ pc' = "await_suggestions"
                    /\ UNCHANGED response
               ELSE /\ arg' = [arg EXCEPT !.search_results = search_results]
                    /\ response' = SearchSucceeded(query, arg.search_mode,
                                                   search_results, <<>>)
                    /\ pc' = "search_done"
                    /\ UNCHANGED gateway_calls
    /\ UNCHANGED <<query, sparql_query, ret>>

\* the variant that asks the gateway a second time before giving up
SearchPrimaryRaisesRetrying ==
    /\ pc = "await_primary"
    /\ response' = SearchFailed(SparqlQueryFailed)
    /\ gateway_calls' = gateway_calls + 1
    /\ pc' = "search_failed"
    /\ UNCHANGED <<query, sparql_query, results, arg, ret>>

\* the primary query raises: the except clause of search
SearchPrimaryRaises ==
    /\ pc = "await_primary"
    /\ response' = SearchFailed(SparqlQueryFailed)
    /\ pc' = "search_failed"
    /\ UNCHANGED <<query, sparql_query, gateway_calls, results, arg, ret>>

\* the suggestions query returns its bindings
SuggestionsReturn ==
    /\ pc = "await_suggestions"
    /\ \E rows \in SeqsUpTo({[label |-> l] : l \in {Demo, DemoPy, None}}, MaxBindings) :
       \E suggestions \in list_set_prefix(suggestions_from(rows, query.query)) :
          response' = SearchSucceeded(query, arg.search_mode,
                                      arg.search_results, suggestions)
    /\ pc' = "search_done"
    /\ ret' = "suggestions_returned"
    /\ UNCHANGED <<query, sparql_query, gateway_calls, results, arg>>

\* the variant in which the exception leaves _generate_suggestions
SuggestionsRaisePropagates ==
    /\ pc = "await_suggestions"
    /\ response' = SearchFailed(SparqlQueryFailed)
    /\ pc' = "search_failed"
    /\ ret' = "suggestions_failed"
    /\ UNCHANGED <<query, sparql_query, gateway_calls, results, arg>>

\* the suggestions query raises: _generate_suggestions logs and returns []
SuggestionsRaise ==
    /\ pc = "await_suggestions"
    /\ \E suggestions \in list_set_prefix(<<>>) :
          response' = SearchSucceeded(query, arg.search_mode,
                                      arg.search_results, suggestions)
    /\ pc' = "search_done"
    /\ ret' = "suggestions_failed"
    /\ UNCHANGED <<query, sparql_query, gateway_calls, results, arg>>

NextSearch ==
    \/ SearchSendQuery
    \/ SearchPrimaryReturns
    \/ SearchPrimaryRaises
    \/ SuggestionsReturn
    \/ SuggestionsRaise

SpecSearch == InitSearch /\ [][NextSearch]_vars

\* C12: when the gateway raises during the suggestions query of a search whose
\* primary query succeeded, the request still completes successfully: the
\* response carries one result per primary row, each the processed row, and
\* an empty suggestions list; no error reaches the caller.
C12_SuggestionFailureSwallowed ==
    ret = "suggestions_failed" =>
        /\ pc = "search_done"
        /\ response.status = "success"
        /\ response.total_results = Len(results)
        /\ Len(response.results) = Len(results)
        /\ \A i \in 1..Len(results) :
              /\ response.results[i].file_name = Get(results[i], "fileName", <<>>)
              /\ response.results[i].title = results[i].title
        /\ response.suggestions = <<>>

\* the suggestions query failed after a primary query that returned rows
C12_Witness ==
    /\ pc = "search_done"
    /\ ret = "suggestions_failed"
    /\ gateway_calls = 2
    /\ Len(results) = MaxRows
    /\ Len(response.results) = MaxRows

\* ------------------------------------------------------------------------
\* Explore and search requests together
\* ------------------------------------------------------------------------

\* one request, an explore (get_knowledge_graph) or a search (search)
SpecRequests == (Init \/ InitSearch) /\ [][Next \/ NextSearch]_vars

\* C13: when query building fails or the gateway raises on the primary query
\* of an explore or search request, the request ends with one error that
\* carries a message, the response holds no nodes, edges or search results,
\* the gateway has been invoked at most once (not at all when building
\* failed) and nothing further happens in the request: no retry, no
\* suggestions query.
C13_FailureIsFinal ==
    pc \in {"failed", "search_failed"} =>
        /\ response.status = "error"
        /\ DOMAIN response = {"status", "status_code", "detail"}
        /\ response.detail[1] \in {"Graph query failed", "Search failed"}
        /\ response.detail[2] # ""
        /\ gateway_calls <= 1
        /\ (response.detail[2] = PathEndpointsRequired => gateway_calls = 0)
        /\ ~ENABLED (Next \/ NextSearch)

\* a search whose primary query raised
C13_Witness ==
    /\ pc = "search_failed"
    /\ response.detail = <<"Search failed", SparqlQueryFailed>>
    /\ gateway_calls = 1
    /\ results = <<>>

SpecRows == (InitProject \/ InitSearch) /\ [][NextProject \/ NextSearch]_vars

\* C14: a binding row with unbound optional variables never fails the request
\* and never costs the other rows their projection.  In graph projection a
\* node created by a row without label gets the local name of its URI as
\* label, one created by a row without type gets the type "Resource", and
\* the subject of every row is a node.  In a search every row becomes a
\* result with the defaults for its unbound variables; a search fails only
\* when the gateway raises or a bound fileSize is not a number.
C14_UnboundVariablesDegrade ==
    /\ pc = "return" =>
          \A i \in 1..Len(arg.rows) :
              LET r == arg.rows[i]
                  sFirst == r.s # None /\ FirstRow(arg.rows, r.s) = i
                  oFirst == /\ StartsWith(r.o, Http) /\ r.o # r.s
                            /\ FirstRow(arg.rows, r.o) = i
              IN  /\ r.s # None => InDict(ret.nodes, r.s)
                  /\ StartsWith(r.o, Http) => InDict(ret.nodes, r.o)
                  /\ (sFirst /\ r.sLabel = None) =>
                        NodeOf(ret.nodes, r.s).label = LocalNameRule(r.s)
                  /\ (sFirst /\ r.sType = None) =>
                        NodeOf(ret.nodes, r.s).type = Resource
                  /\ (oFirst /\ r.oLabel = None) =>
                        NodeOf(ret.nodes, r.o).label = LocalNameRule(r.o)
                  /\ (oFirst /\ r.oType = None) =>
                        NodeOf(ret.nodes, r.o).type = Resource
    /\ pc = "search_failed" =>
          \/ response.detail[2] = SparqlQueryFailed
          \/ \E i \in 1..Len(results) :
                /\ results[i].fileSize # None
                /\ \E k \in 1..Len(results[i].fileSize) :
                      results[i].fileSize[k] \notin
                          {"0", "1", "2", "3", "4", "5", "6", "7", "8", "9"}
    /\ pc \in {"await_suggestions", "search_done"} =>
          /\ Len(arg.search_results) = Len(results)
          /\ \A i \in 1..Len(results) :
                LET r == results[i]
                    sr == arg.search_results[i]
                IN  /\ r.title = None => sr.title = None
                    /\ r.description = None => sr.description = None
                    /\ r.author = None => sr.author = None
                    /\ r.fileSize = None => sr.file_size = 0
                    /\ r.mimeType = None => sr.mime_type = <<>>
                    /\ r.tag = None => sr.tags = <<>>
                    /\ r.type = None => sr.wdo_classes = << <<>> >>
                    /\ r.created = None =>
                          sr.created_at = <<"2", "0", "2", "4", "-", "0", "1", "-",
                                            "0", "1", "T", "0", "0", ":", "0", "0",
                                            ":", "0", "0">>

\* a search that returned three results, the second from a row in which no
\* variable is bound
C14_Witness ==
    /\ pc = "search_done"
    /\ Len(results) = 3
    /\ results[1].title # None
    /\ results[2] = SearchRow(None, None, None, None)
    /\ response.total_results = 3
    /\ response.results[2].file_size = 0

\* ------------------------------------------------------------------------
\* Concurrent requests on the one TriplestoreClient (dependencies.py) and
\* its one SPARQLWrapper (triplestore_client.py).  Handlers are coroutines
\* on one event loop: a step of a request runs until its next await, and
\* TriplestoreClient.query has no await between setQuery and query().
\* Here pc, query, sparql_query, results and response hold one entry per
\* request and arg is the shared wrapper.
\* ------------------------------------------------------------------------

\* number of requests in flight
MaxRequests == 2

\* explore requests of every type, a basic and an advanced search
ConcurrentQueries ==
    {q \in GraphQueries :
        /\ q.center_entity = UA /\ q.source_entity = UA /\ q.target_entity = UB
        /\ ~q.include_literals /\ q.max_nodes = 10}
    \cup {q \in SearchRequests : q.search_type = "hybrid" /\ q.max_file_size = {}}

\* the bindings the store holds for a query text; a variable that a row
\* does not bind is absent from it, whatever the query selected
StoreAnswer(text) ==
    LET vars_of_rows == {"s", "p", "o", "sLabel", "oLabel", "sType", "oType",
                         "asset", "fileName", "title", "description", "fileSize",
                         "mimeType", "author", "created", "type", "tag", "label"}
        binding(row) == [v \in vars_of_rows |->
                            IF v \in DOMAIN row THEN row[v] ELSE None]
        rows ==
            IF text.kind = "neighborhood"
            THEN <<Row(UA, PRel, UB, None, None, None, None)>>
            ELSE IF text.kind = "path"
            THEN <<Row(UB, PRel, UC, None, None, None, None)>>
            ELSE IF text.kind = "cluster"
            THEN <<Row(UA, PSize, Lit1024, None, None, None, None)>>
            ELSE IF text.kind = "full"
            THEN <<Row(UA, PRel, UB, L1, L2, TFile, TDoc),
                   Row(UC, PRel, UD, None, None, None, None)>>
            ELSE IF text.kind = "semantic"
            THEN <<SearchRow(DemoPy, DemoProject, ADemo, Demo)>>
            ELSE IF text.kind = "advanced"
            THEN <<SearchRow(MyDemoPy, None, None, Py)>>
            ELSE <<[label |-> DemoPy]>>
    IN  [i \in 1..Len(rows) |-> binding(rows[i])]

InitConcurrent ==
    /\ pc = [r \in 1..MaxRequests |-> "start"]
    /\ query \in [1..MaxRequests -> ConcurrentQueries]
    /\ sparql_query = [r \in 1..MaxRequests |-> None]
    /\ results = [r \in 1..MaxRequests |-> <<>>]
    /\ response = [r \in 1..MaxRequests |-> None]
    /\ gateway_calls = 0
    /\ arg = [queryString |-> None, returnFormat |-> "json"]
    /\ ret = None

\* the handler of request r up to its call of triplestore.query
RequestBuild(r) ==
    /\ pc[r] = "start"
    /\ sparql_query' =
          [sparql_query EXCEPT ![r] =
              IF "query_type" \in DOMAIN query[r] THEN BuildQuery(query[r]).value
              ELSE IF has_advanced_filters(query[r])
                   THEN build_advanced_search_query(query[r])
                   ELSE build_basic_search_query(query[r])]
    /\ pc' = [pc EXCEPT ![r] = "calling"]
    /\ UNCHANGED <<query, gateway_calls, results, response, arg, ret>>

\* query().convert() runs the text the wrapper holds; request r goes on with
\* the bindings: a basic search sends its suggestions query next, every
\* other request returns its response
RunQuery(r, text) ==
    LET q == query[r]
        bindings == StoreAnswer(text)
        seen == Append(results[r], [sent |-> sparql_query[r], executed |-> text,
                                    bindings |-> bindings])
        search_results == [i \in 1..Len(seen[1].bindings) |->
                              process_search_result(seen[1].bindings[i], q.query).value]
        g == process_graph_results(bindings, q)
    IN  /\ results' = [results EXCEPT ![r] = seen]
        /\ IF "query_type" \in DOMAIN q
           THEN /\ response' = [response EXCEPT ![r] =
                       [status |-> "success",
                        graph |-> [nodes |-> g.nodes, edges |-> g.edges],
                        analytics |-> calculate_graph_analytics(g.nodes, g.edges),
                        query_info |-> [query_type |-> q.query_type,
                                        center_entity |-> q.center_entity,
                                        depth |-> q.depth,
                                        total_results |-> Len(bindings)]]]
                /\ pc' = [pc EXCEPT ![r] = "done"]
                /\ UNCHANGED sparql_query
           ELSE IF ~has_advanced_filters(q) /\ Len(seen) = 1
           THEN /\ sparql_query' = [sparql_query EXCEPT ![r] =
                       [kind |-> "suggestions", prefix |-> SubSeq(q.query, 1, 3),
                        limit |-> SuggestionLimit]]
                /\ UNCHANGED <<pc, response>>
           ELSE /\ response' = [response EXCEPT ![r] =
                       SearchSucceeded(q,
                           IF has_advanced_filters(q) THEN "advanced" ELSE "basic",
                           search_results,
                           IF Len(seen) = 1 THEN <<>>
                           ELSE CHOOSE s \in list_set_prefix(
                                    suggestions_from(bindings, q.query)) : TRUE)]
                /\ pc' = [pc EXCEPT ![r] = "done"]
                /\ UNCHANGED sparql_query

\* the variant of TriplestoreClient.query that gives up control between
\* setQuery and query()
ClientQueryYielding(r) ==
    \/ /\ pc[r] = "calling"
       /\ arg' = [arg EXCEPT !.queryString = sparql_query[r], !.returnFormat = "json"]
       /\ pc' = [pc EXCEPT ![r] = "set"]
       /\ UNCHANGED <<query, sparql_query, gateway_calls, results, response, ret>>
    \/ /\ pc[r] = "set"
       /\ gateway_calls' = gateway_calls + 1
       /\ RunQuery(r, arg.queryString)
       /\ UNCHANGED <<query, arg, ret>>

\* TriplestoreClient.query called by request r: setQuery, setReturnFormat and
\* query().convert() in one step, then the handler up to its next call
ClientQuery(r) ==
    /\ pc[r] = "calling"
    /\ arg' = [arg EXCEPT !.queryString = sparql_query[r], !.returnFormat = "json"]
    /\ gateway_calls' = gateway_calls + 1
    /\ RunQuery(r, arg'.queryString)
    /\ UNCHANGED <<query, ret>>

SpecConcurrent ==
    InitConcurrent
    /\ [][\E r \in 1..MaxRequests : RequestBuild(r) \/ ClientQuery(r)]_vars

\* C15: with several explore and search requests in flight on the shared
\* client, under every interleaving of their steps each query a request sent
\* is the text the wrapper executed for it, the bindings it received are the
\* store's answer to that text, and its response is the projection of those
\* bindings; nothing of another request's query or results is observed.
C15_RequestsIsolated ==
    \A r \in 1..MaxRequests :
        /\ \A k \in 1..Len(results[r]) :
              /\ results[r][k].executed = results[r][k].sent
              /\ results[r][k].bindings = StoreAnswer(results[r][k].sent)
        /\ pc[r] = "done" =>
              IF "query_type" \in DOMAIN query[r]
              THEN /\ Len(results[r]) = 1
                   /\ results[r][1].sent = BuildQuery(query[r]).value
                   /\ response[r].graph.nodes
                        = process_graph_results(
                              StoreAnswer(BuildQuery(query[r]).value), query[r]).nodes
                   /\ response[r].query_info.query_type = query[r].query_type
              ELSE /\ results[r][1].sent.query_text = query[r].query
                   /\ response[r].total_results = Len(StoreAnswer(results[r][1].sent))
                   /\ \A i \in 1..response[r].total_results :
                         response[r].results[i].file_name
                            = StoreAnswer(results[r][1].sent)[i].fileName

\* request 1 built its query first, request 2 of another kind went through
\* the wrapper in between, and both are done
C15_Witness ==
    /\ pc[1] = "done"
    /\ pc[2] = "done"
    /\ "query_type" \in DOMAIN query[1]
    /\ "search_type" \in DOMAIN query[2]
    /\ ~has_advanced_filters(query[2])
    /\ arg.queryString = sparql_query[1]
    /\ gateway_calls >= 3

\* ------------------------------------------------------------------------
\* include_literals, max_nodes and the edge list
\* ------------------------------------------------------------------------

\* C17: include_literals decides how a row whose object is a literal (here:
\* a value the projection does not take for a URI) is projected: when the
\* flag is false the object is no node and its value is a property of the
\* subject node, when the flag is true the literal value is a node.
C17_IncludeLiteralsControlsProjection ==
    pc = "done" =>
        \A i \in 1..Len(results) :
            LET r == results[i]
                nodes == response.graph.nodes
            IN  (r.s # None /\ ~StartsWith(r.o, Http)) =>
                    IF query.include_literals
                    THEN InDict(nodes, r.o)
                    ELSE /\ ~InDict(nodes, r.o)
                         /\ LocalNameRule(r.p)
                               \in DOMAIN NodeOf(nodes, r.s).properties

\* rows the gateway may return for one query, at most MaxLimitRows of them
MaxLimitRows == 8

\* the gateway returns k rows, k within the LIMIT of the query sent: rows
\* over disjoint pairs of URIs, a chain, a star, or one row k times
GatewayReturnsUpToLimit ==
    /\ pc = "await_query"
    /\ \E k \in 0..Min(sparql_query.limit, MaxLimitRows),
          shape \in {"pairs", "chain", "star", "same"} :
          LET U(n) == HttpX \o [j \in 1..n |-> "n"]
              rows == [i \in 1..k |->
                          Row(IF shape = "pairs" THEN U(2 * i - 1)
                              ELSE IF shape = "chain" THEN U(i) ELSE U(1),
                              PRel,
                              IF shape = "pairs" THEN U(2 * i)
                              ELSE IF shape = "same" THEN U(2) ELSE U(i + 1),
                              None, None, None, None)]
              g == process_graph_results(rows, query)
          IN  /\ results' = rows
              /\ response' =
                    [status |-> "success",
                     graph |-> [nodes |-> g.nodes, edges |-> g.edges],
                     analytics |-> calculate_graph_analytics(g.nodes, g.edges),
                     query_info |-> [query_type |-> query.query_type,
                                     center_entity |-> query.center_entity,
                                     depth |-> query.depth,
                                     total_results |-> Len(rows)]]
    /\ pc' = "done"
    /\ UNCHANGED <<query, sparql_query, gateway_calls, arg, ret>>

\* an explore request whose gateway answers with up to LIMIT rows
SpecLimit ==
    Init /\ [][ExploreBuildFails \/ ExploreSendQuery
               \/ GatewayReturnsUpToLimit \/ GatewayRaises]_vars

\* C18: when the gateway returns no more rows than the LIMIT of the generated
\* query, the returned graph has at most max_nodes nodes.
C18_NodesWithinMaxNodes ==
    (pc = "done" /\ Len(results) <= sparql_query.limit) =>
        Len(response.graph.nodes) <= query.max_nodes

MaxTags == 2

\* the variant that leaves out the label of a tag
tag_triples_no_label(asset_uri, tag) ==
    LET tag_uri == [ns |-> "sbekms",
                    name |-> <<"t", "a", "g", "_">>
                             \o [i \in 1..Len(tag) |->
                                    IF tag[i] = " " THEN "_" ELSE tag[i]]]
    IN  <<[s |-> asset_uri, p |-> "wdo:hasTag", o |-> tag_uri],
          [s |-> tag_uri, p |-> "rdf:type", o |-> [ns |-> "wdo", name |-> "Tag"]]>>

\* the three triples of one tag; the tag URI has '_' for every ' '
tag_triples(asset_uri, tag) ==
    LET tag_uri == [ns |-> "sbekms",
                    name |-> <<"t", "a", "g", "_">>
                             \o [i \in 1..Len(tag) |->
                                    IF tag[i] = " " THEN "_" ELSE tag[i]]]
    IN  <<[s |-> asset_uri, p |-> "wdo:hasTag", o |-> tag_uri],
          [s |-> tag_uri, p |-> "rdf:type", o |-> [ns |-> "wdo", name |-> "Tag"]],
          [s |-> tag_uri, p |-> "rdfs:label", o |-> [literal |-> tag]]>>

\* the list triples at the call of add_triples
annotate_triples(metadata) ==
    LET asset_uri == [ns |-> "sbekms",
                      name |-> <<"a", "s", "s", "e", "t", "_">> \o metadata.id]
        one(cond, p, o) == IF cond THEN <<[s |-> asset_uri, p |-> p, o |-> o]>>
                           ELSE <<>>
        RECURSIVE classes(_)
        classes(i) ==
            IF i > Len(metadata.wdo_classes) THEN <<>>
            ELSE one(metadata.wdo_classes[i] # "DigitalInformationCarrier",
                     "rdf:type", [ns |-> "wdo", name |-> metadata.wdo_classes[i]])
                 \o classes(i + 1)
        RECURSIVE tags(_)
        tags(i) ==
            IF i > Len(metadata.tags) THEN <<>>
            ELSE tag_triples(asset_uri, metadata.tags[i]) \o tags(i + 1)
    IN  one(TRUE, "rdf:type", [ns |-> "wdo", name |-> "DigitalInformationCarrier"])
        \o one(TRUE, "rdfs:label", [literal |-> metadata.file_name])
        \o one(TruthyInt(metadata.file_size), "wdo:hasFileSize",
               [literal |-> metadata.file_size, datatype |-> "xsd:integer"])
        \o one(Truthy(metadata.mime_type), "wdo:hasMimeType",
               [literal |-> metadata.mime_type])
        \o classes(1)
        \o one(TruthyInt(metadata.line_count), "wdo:hasLineCount",
               [literal |-> metadata.line_count, datatype |-> "xsd:integer"])
        \o one(Truthy(metadata.title), "dcterms:title", [literal |-> metadata.title])
        \o one(Truthy(metadata.description), "dcterms:description",
               [literal |-> metadata.description])
        \o one(Truthy(metadata.author), "dcterms:creator",
               [literal |-> metadata.author])
        \o tags(1)
        \o one(metadata.created_at # {}, "dcterms:created",
               [literal |-> metadata.created_at, datatype |-> "xsd:dateTime"])

InitAnnotate ==
    /\ pc = "annotate"
    /\ query \in [id : {<<"1">>},
                  file_name : {DemoPy},
                  file_size : {{}, {0}, {1024}},
                  mime_type : {None, Text},
                  wdo_classes : {<<>>, <<"DigitalInformationCarrier">>,
                                 <<"DigitalInformationCarrier", "SourceCodeFile">>},
                  line_count : {{}, {3}},
                  title : {None, <<>>, DemoProject},
                  description : {None},
                  author : {None, Bob},
                  tags : SeqsUpTo({Demo, <<"a", " ", "b">>}, MaxTags),
                  created_at : {{}, {"2024-05-02T10:30:00"}}]
    /\ sparql_query = None
    /\ gateway_calls = 0
    /\ results = <<>>
    /\ response = None
    /\ arg = <<>>
    /\ ret = None

\* annotate_asset up to its await: the triples are generated and handed to
\* add_triples
AnnotateCallsAddTriples ==
    /\ pc = "annotate"
    /\ arg' = Append(arg, annotate_triples(query))
    /\ gateway_calls' = gateway_calls + 1
    /\ pc' = "await_add_triples"
    /\ UNCHANGED <<query, sparql_query, results, response, ret>>

\* add_triples returns success: len(triples) if success else 0
AddTriplesReturns ==
    /\ pc = "await_add_triples"
    /\ \E success \in BOOLEAN :
          /\ response' = IF success THEN "stored" ELSE "rejected"
          /\ ret' = IF success THEN Len(arg[Len(arg)]) ELSE 0
    /\ pc' = "annotated"
    /\ UNCHANGED <<query, sparql_query, gateway_calls, results, arg>>

\* add_triples raises: the except clause logs and returns 0
AddTriplesRaises ==
    /\ pc = "await_add_triples"
    /\ response' = "raised"
    /\ ret' = 0
    /\ pc' = "annotated"
    /\ UNCHANGED <<query, sparql_query, gateway_calls, results, arg>>

SpecAnnotate ==
    InitAnnotate
    /\ [][AnnotateCallsAddTriples \/ AddTriplesReturns \/ AddTriplesRaises]_vars

\* the number of triples an asset calls for: type and label, one per truthy
\* property, one per class other than DigitalInformationCarrier, three per tag
ExpectedTripleCount(metadata) ==
    2 + (IF metadata.file_size \in {{}, {0}} THEN 0 ELSE 1)
      + (IF metadata.mime_type \in {None, <<>>} THEN 0 ELSE 1)
      + Cardinality({i \in 1..Len(metadata.wdo_classes) :
                        metadata.wdo_classes[i] # "DigitalInformationCarrier"})
      + (IF metadata.line_count \in {{}, {0}} THEN 0 ELSE 1)
      + (IF metadata.title \in {None, <<>>} THEN 0 ELSE 1)
      + (IF metadata.description \in {None, <<>>} THEN 0 ELSE 1)
      + (IF metadata.author \in {None, <<>>} THEN 0 ELSE 1)
      + 3 * Len(metadata.tags)
      + (IF metadata.created_at = {} THEN 0 ELSE 1)

\* C20: annotate_asset hands its triples to add_triples in exactly one call
\* that carries all of them; when add_triples returns True it returns their
\* number, which is at least 2 (type and label) plus 3 per tag; when
\* add_triples returns False or raises it returns 0 and does not raise.
C20_AnnotateOnce ==
    /\ pc = "annotate" => gateway_calls = 0 /\ arg = <<>>
    /\ pc \in {"await_add_triples", "annotated"} =>
          /\ gateway_calls = 1
          /\ Len(arg) = 1
          /\ Len(arg[1]) = ExpectedTripleCount(query)
          /\ arg[1][1].p = "rdf:type"
          /\ arg[1][2].p = "rdfs:label"
          /\ \A i \in 1..Len(query.tags) :
                Cardinality({k \in 1..Len(arg[1]) :
                    /\ arg[1][k].p = "rdfs:label"
                    /\ arg[1][k].o = [literal |-> query.tags[i]]}) >= 1
    /\ pc = "annotated" =>
          /\ response \in {"stored", "rejected", "raised"}
          /\ response = "stored" =>
                /\ ret = ExpectedTripleCount(query)
                /\ ret >= 2 + 3 * Len(query.tags)
          /\ response # "stored" => ret = 0

\* an asset with two tags and every property stored: 2 + 7 + 6 triples
C20_Witness ==
    /\ pc = "annotated"
    /\ response = "stored"
    /\ Len(query.tags) = 2
    /\ gateway_calls = 1
    /\ ret = 15

(***************************************************************************)
(* The advanced query builder on its own: search() hands the request to    *)
(* _build_advanced_search_query when has_advanced_filters() is true.       *)
(***************************************************************************)
BuildAdvancedSearchQuery ==
    /\ pc = "call"
    /\ has_advanced_filters(arg)
    /\ ret' = build_advanced_search_query(arg)
    /\ pc' = "return"
    /\ UNCHANGED <<arg, query, sparql_query, gateway_calls, results, response>>

SpecAdvanced == InitFilters /\ [][BuildAdvancedSearchQuery]_vars

\* the clauses of the generated FILTER that test the variable `on` with the
\* operand `key`
ClausesOn(filters, on, key) ==
    {i \in 1..Len(filters) : filters[i].on = on /\ key \in DOMAIN filters[i]}

\* C21: in advanced mode the generated query has, for each filter that is set
\* (classes, file types, author, minimum and maximum size, date_from, date_to,
\* tags), the clause of that filter with the value that was set, inclusive
\* bounds for sizes and dates and one alternative per list value; it has no
\* clause for a filter that is not set; this for every allowed value,
\* including a size bound of 0
C21_EverySetFilterHasClause ==
    pc = "return" =>
        LET f == ret.filters
            One(on, key, isSet, value) ==
                IF isSet
                THEN \E i \in ClausesOn(f, on, key) :
                        /\ f[i][key] = value
                        /\ ClausesOn(f, on, key) = {i}
                ELSE ClausesOn(f, on, key) = {}
        IN  /\ One("type", "any_of", arg.wdo_classes # None, arg.wdo_classes)
            /\ One("fileName", "suffix_any_of", arg.file_types # None, arg.file_types)
            /\ One("author", "contains", arg.author # None, arg.author)
            /\ One("fileSize", "ge", arg.min_file_size # {}, arg.min_file_size)
            /\ One("fileSize", "le", arg.max_file_size # {}, arg.max_file_size)
            /\ One("created", "ge", arg.date_from # {}, arg.date_from)
            /\ One("created", "le", arg.date_to # {}, arg.date_to)
            /\ One("tag", "contains_any_of", arg.tags # None, arg.tags)

\* the ordering of the basic semantic query: file name 4, title 3,
\* description 2, tag 1, summed, descending, then file name ascending
BasicSemanticOrdering(q) ==
    build_basic_search_query([q EXCEPT !.search_type = "semantic"]).order_by

\* C22: an advanced search with a text query and search_type = semantic is
\* ordered by the same weighted ranking as the basic semantic search (file
\* name 4, title 3, description 2, tag 1); every other advanced search is
\* ordered by file name only
C22_AdvancedOrdering ==
    (pc # "search" /\ sparql_query.kind = "advanced") =>
        sparql_query.order_by =
            IF Truthy(query.query) /\ query.search_type = "semantic"
            THEN BasicSemanticOrdering(query)
            ELSE <<>>

\* C23: a search request is built by the advanced builder if and only if
\* has_advanced_filters() is true and by the basic builder otherwise; a basic
\* semantic or hybrid search produces the semantic query (match on file name,
\* title, description, tag, type or mime type; weighted ranking), a basic
\* textual search the textual query (file name, title or description; ordered
\* by file name only); the response reports search_mode "advanced" exactly
\* when filters_applied is true
C23_BuilderSelection ==
    /\ pc \in {"await_primary", "await_suggestions", "search_done", "search_failed"} =>
        /\ sparql_query.kind = "advanced" <=> has_advanced_filters(query)
        /\ (~has_advanced_filters(query) /\ query.search_type \in {"semantic", "hybrid"}) =>
              /\ sparql_query.kind = "semantic"
              /\ sparql_query.filter_fields
                    = <<"fileName", "title", "description", "tag", "type", "mimeType">>
              /\ sparql_query.order_by
                    = <<[field |-> "fileName", weight |-> 4],
                        [field |-> "title", weight |-> 3],
                        [field |-> "description", weight |-> 2],
                        [field |-> "tag", weight |-> 1]>>
        /\ (~has_advanced_filters(query) /\ query.search_type = "textual") =>
              /\ sparql_query.kind = "textual"
              /\ sparql_query.filter_fields = <<"fileName", "title", "description">>
              /\ sparql_query.order_by = <<>>
    /\ pc = "search_done" =>
        /\ response.data.search_mode = "advanced" <=> response.data.filters_applied
        /\ response.data.search_mode = "advanced" <=> sparql_query.kind = "advanced"

C23_Witness ==
    /\ pc = "search_done"
    /\ query.search_type = "hybrid"
    /\ sparql_query.kind = "semantic"
    /\ response.data.search_mode = "basic"
    /\ ~response.data.filters_applied

\* C24: the LIMIT of the generated graph query is twice max_nodes for a
\* neighborhood query and max_nodes for a path, cluster or full query; a
\* query_type other than neighborhood, path and cluster is built as the
\* full-graph query
C24_RowLimit ==
    (pc \in {"await_query", "done"} \/ (pc = "failed" /\ gateway_calls = 1)) =>
        /\ sparql_query.limit = IF query.query_type = "neighborhood"
                                THEN 2 * query.max_nodes
                                ELSE query.max_nodes
        /\ query.query_type \in {"neighborhood", "path", "cluster"} =>
              sparql_query.kind = query.query_type
        /\ query.query_type \notin {"neighborhood", "path", "cluster"} =>
              sparql_query.kind = "full"

C24_Witness ==
    /\ pc = "done"
    /\ query.query_type = "neighborhood"
    /\ query.max_nodes = 10
    /\ sparql_query.limit = 20
    /\ Len(results) = 1
    /\ response.status = "success"

(***************************************************************************)
(* _process_search_result on one binding row (SpecHighlights): the score   *)
(* and the highlights of the same row and query.                           *)
(***************************************************************************)
\* rows whose description holds the query text after n characters and before
\* m more, around the 30 and 100 character marks of the highlight window
SnippetRows ==
    {SearchRow(NotesMd, None,
               [k \in 1..n |-> c] \o Demo \o [k \in 1..m |-> "y"], None) :
        c \in {"x", "U+0130"}, n \in {0, 29, 30, 31, 40}, m \in {0, 65, 66, 67, 100}}

InitHighlights ==
    /\ pc = "call"
    /\ arg \in [result : SearchRows \cup SnippetRows, query_text : QueryTexts]
    /\ ret = None
    /\ query = None
    /\ sparql_query = None
    /\ gateway_calls = 0
    /\ results = <<>>
    /\ response = None

ProcessSearchResult ==
    /\ pc = "call"
    /\ ret' = process_search_result(arg.result, arg.query_text)
    /\ pc' = "return"
    /\ UNCHANGED <<arg, query, sparql_query, gateway_calls, results, response>>

SpecHighlights == InitHighlights /\ [][ProcessSearchResult]_vars

\* the field of the row contains the query, ignoring case
FieldContains(result, field, query_text) ==
    LET v == Lower(Get(result, field, <<>>))
        q == Lower(query_text)
    IN  \E i \in 1..Len(v) : i + Len(q) - 1 <= Len(v) /\ SubSeq(v, i, i + Len(q) - 1) = q

HighlightFields == <<"fileName", "title", "description", "tag">>

\* C25: the highlight list has a file name highlight iff the file name
\* contains the query, a title highlight iff the title does, a description
\* highlight iff the description does and a tag highlight iff the tag does
\* (ignoring case); the highlights come in the order file name, title,
\* description, tag, so there are at most 4 and each kind at most once
C25_HighlightsIffMatch ==
    (pc = "return" /\ ~ret.raised) =>
        LET h == ret.value.highlights
            Rank(f) == CHOOSE k \in 1..4 : HighlightFields[k] = f
        IN  /\ \A k \in 1..4 :
                  (\E i \in 1..Len(h) : h[i].field = HighlightFields[k])
                  <=> FieldContains(arg.result, HighlightFields[k], arg.query_text)
            /\ \A i, j \in 1..Len(h) : i < j => Rank(h[i].field) < Rank(h[j].field)
            /\ Len(h) <= 4

C25_Witness ==
    /\ pc = "return"
    /\ ~ret.raised
    /\ arg.result.fileName = MyDemoPy
    /\ arg.result.title = Notes
    /\ arg.result.description = ADemo
    /\ arg.result.tag = Demo
    /\ arg.query_text = Demo
    /\ Len(ret.value.highlights) = 3
    /\ ret.value.highlights[3].field = "tag"

\* C26: for a description of length L in which the query first occurs at
\* index i, the description highlight is the substring from
\* start = max(0, i - 30) to end = min(L, start + 100); it has at most 100
\* characters and contains position i; it is preceded by "..." iff start > 0
\* and followed by "..." iff end < L
C26_DescriptionWindow ==
    (pc = "return" /\ ~ret.raised) =>
        LET d == Get(arg.result, "description", <<>>)
            q == arg.query_text
            L == Len(d)
            Occurs(i) == i + Len(q) <= L /\ Lower(SubSeq(d, i + 1, i + Len(q))) = Lower(q)
            h == ret.value.highlights
        IN  \A i \in 0..L :
                (Occurs(i) /\ \A j \in 0..(i - 1) : ~Occurs(j)) =>
                    LET start == IF i - 30 > 0 THEN i - 30 ELSE 0
                        end == IF L < start + 100 THEN L ELSE start + 100
                        window == SubSeq(d, start + 1, end)
                        dots == <<".", ".", ".">>
                    IN  /\ \E k \in 1..Len(h) :
                              /\ h[k].field = "description"
                              /\ h[k].text = (IF start > 0 THEN dots ELSE <<>>)
                                             \o window
                                             \o (IF end < L THEN dots ELSE <<>>)
                        /\ Len(window) <= 100
                        /\ start <= i /\ i < end

\* C29: the relevance score of a search result is greater than 0 if and only
\* if its highlight list is non-empty; a score of 0 comes with no highlights
C29_ScoreIffHighlights ==
    (pc = "return" /\ ~ret.raised) =>
        /\ ret.value.relevance_score > 0 <=> ret.value.highlights # <<>>
        /\ ret.value.relevance_score = 0 => ret.value.highlights = <<>>

C29_Witness ==
    /\ pc = "return"
    /\ ~ret.raised
    /\ arg.result.fileName = NotesMd
    /\ arg.result.title = None
    /\ arg.result.description = Text
    /\ arg.result.tag = Demo
    /\ arg.query_text = Demo
    /\ ret.value.relevance_score = 1
    /\ ret.value.highlights = <<[field |-> "tag", text |-> Demo]>>

\* C27: every edge of a returned graph has its source and its target among the
\* returned nodes, and the degrees counted by the analytics add up to twice
\* total_edges
C27_NoDanglingEdges ==
    pc = "return" =>
        LET ids == {ret.nodes[k].id : k \in 1..Len(ret.nodes)}
        IN  /\ \A i \in 1..Len(ret.edges) :
                  ret.edges[i].source \in ids /\ ret.edges[i].target \in ids
            /\ SumValues(degree_count(ret.edges)) = 2 * ret.analytics.total_edges
            /\ ret.analytics.total_edges = Len(ret.edges)

C27_Witness ==
    /\ pc = "return"
    /\ Len(ret.edges) = 3
    /\ Len(ret.nodes) = 3
    /\ ret.analytics.total_edges = 3
    /\ SumValues(degree_count(ret.edges)) = 6
    /\ \E i \in 1..3 : ret.edges[i].target = ret.nodes[3].id

(***************************************************************************)
(* Projection of rows whose predicate is named like a key that the         *)
(* projector itself writes into the property bag (SpecFold).               *)
(***************************************************************************)
\* literal rows with the predicates http://x/uri, http://x/#full_type and
\* http://x/#hasFileSize, and one row with a URI object
FoldRows ==
    { Row(UA, HttpX \o UriKey, Lit1024, None, None, TDoc, None),
      Row(UA, HttpX \o <<"#">> \o FullTypeKey, Lit2048, None, None, TDoc, None),
      Row(UA, PSize, Lit1024, None, None, TDoc, None),
      Row(UA, PRel, UB, None, None, TDoc, TFile) }

InitFold ==
    /\ pc = "call"
    /\ arg \in [rows : SeqsUpTo(FoldRows, MaxRows)]
    /\ ret = None
    /\ query = None
    /\ sparql_query = None
    /\ gateway_calls = 0
    /\ results = <<>>
    /\ response = None

SpecFold == InitFold /\ [][ProjectGraph]_vars

\* C28: in every node of a projected graph the property "uri" equals the
\* node's id and the property "full_type" is the type value the node was
\* created with (that of the first row naming it); folding literal objects
\* into the property bag never overwrites these two keys, whatever the local
\* names of the predicates
C28_ReservedKeysKept ==
    pc = "return" =>
        \A i \in 1..Len(ret.nodes) :
            LET n == ret.nodes[i]
                r == arg.rows[FirstRow(arg.rows, n.id)]
                t == IF r.s = n.id THEN r.sType ELSE r.oType
            IN  /\ n.properties[UriKey] = n.id
                /\ n.properties[FullTypeKey] = IF t = None THEN Unknown ELSE t

(***************************************************************************)
(* upload_asset (assets.py): one upload request (SpecUpload).  query is    *)
(* the form of the request until the metadata is built and the metadata    *)
(* handed to annotate_asset from then on; response is the outcome of       *)
(* add_triples and ret what the endpoint returns.                          *)
(***************************************************************************)
\* the AssetMetadata built from the form (lines 56-113), as metadata.dict()
upload_metadata(form, asset_id, now) ==
    LET dot(x) == <<".">> \o x
        name == form.filename
        dots == {i \in 1..Len(name) : name[i] = "."}
        last_dot == CHOOSE i \in dots : \A j \in dots : j <= i
        \* Path(file.filename).suffix.lower()
        file_extension ==
            IF dots = {} \/ last_dot = 1 \/ last_dot = Len(name)
            THEN <<>>
            ELSE Lower(SubSeq(name, last_dot, Len(name)))
        asset_type ==
            IF file_extension \in {dot(Py), dot(<<"j", "s">>), dot(<<"t", "s">>),
                                   dot(<<"j", "a", "v", "a">>), dot(<<"c", "p", "p">>)}
            THEN "source_code"
            ELSE IF file_extension \in {dot(<<"m", "d">>), dot(<<"t", "x", "t">>),
                                        dot(<<"r", "s", "t">>), dot(<<"p", "d", "f">>)}
            THEN "documentation"
            ELSE IF file_extension \in {dot(<<"j", "s", "o", "n">>), dot(<<"y", "m", "l">>),
                                        dot(<<"y", "a", "m", "l">>), dot(<<"t", "o", "m", "l">>)}
            THEN "configuration"
            ELSE IF file_extension \in {dot(<<"p", "n", "g">>), dot(<<"j", "p", "g">>),
                                        dot(<<"s", "v", "g">>), dot(<<"c", "s", "s">>)}
            THEN "asset_file"
            ELSE "unknown"
        wdo_classes ==
            <<"DigitalInformationCarrier">>
            \o (IF asset_type = "source_code"
                THEN <<"SourceCodeFile">>
                     \o (IF file_extension = dot(Py)
                         THEN <<"PythonSourceCodeFile">>
                         ELSE IF file_extension \in {dot(<<"j", "s">>), dot(<<"t", "s">>)}
                         THEN <<"JavaScriptSourceCodeFile">>
                         ELSE IF file_extension = dot(<<"j", "a", "v", "a">>)
                         THEN <<"JavaSourceCodeFile">>
                         ELSE <<>>)
                ELSE IF asset_type = "documentation" THEN <<"DocumentationFile">>
                ELSE IF asset_type = "configuration" THEN <<"ConfigurationFile">>
                ELSE IF asset_type = "asset_file" THEN <<"AssetFile">>
                ELSE <<>>)
        \* tag.strip()
        RECURSIVE strip(_)
        strip(s) ==
            IF s # <<>> /\ s[1] = " " THEN strip(Tail(s))
            ELSE IF s # <<>> /\ s[Len(s)] = " " THEN strip(SubSeq(s, 1, Len(s) - 1))
            ELSE s
        parts == Split(form.tags, ",")
        tag_list == IF Truthy(form.tags)
                    THEN [i \in 1..Len(parts) |-> strip(parts[i])]
                    ELSE <<>>
    IN  [id |-> asset_id,
         file_name |-> name,
         file_size |-> {form.content.size},
         file_extension |-> file_extension,
         mime_type |-> IF Truthy(form.content_type)
                       THEN form.content_type
                       ELSE <<"a", "p", "p", "l", "i", "c", "a", "t", "i", "o", "n", "/",
                              "o", "c", "t", "e", "t", "-", "s", "t", "r", "e", "a", "m">>,
         asset_type |-> asset_type,
         line_count |-> {form.content.lines},
         character_count |-> form.content.size,
         created_at |-> {now},
         title |-> form.title,
         description |-> form.description,
         tags |-> tag_list,
         project_name |-> form.project_name,
         author |-> form.author,
         wdo_classes |-> wdo_classes,
         rdf_triples_count |-> 0]

\* raise HTTPException(status_code=500, detail=f"Upload failed: {str(e)}")
UploadFailed(error) ==
    [status |-> "error", status_code |-> 500, detail |-> <<"Upload failed", error>>]

\* the form of an upload: an empty file and a file of three lines
UploadForms ==
    [filename : {DemoPy, NotesMd, <<"R", "E", "A", "D", "M", "E">>},
     content : {[size |-> 0, lines |-> 1], [size |-> 1024, lines |-> 3]},
     content_type : {None, Text},
     title : {None, DemoProject},
     description : {None},
     tags : {None, Demo \o <<",", " ">> \o <<"a", " ", "b">>},
     project_name : {None},
     author : {None, Bob}]

InitUpload ==
    /\ pc = "upload"
    /\ query \in UploadForms
    /\ sparql_query = None
    /\ gateway_calls = 0
    /\ results = <<>>
    /\ response = None
    /\ arg = <<>>
    /\ ret = None

\* creating the directory, reading or writing the file raises: the except
\* clause logs and raises the 500
UploadSaveRaises ==
    /\ pc = "upload"
    /\ ret' = Raise(UploadFailed("OSError"))
    /\ pc' = "upload_failed"
    /\ UNCHANGED <<query, sparql_query, gateway_calls, results, response, arg>>

\* the file is saved and the metadata built: annotate_asset is called with
\* metadata.dict()
UploadCallsAnnotate ==
    /\ pc = "upload"
    /\ \E asset_id \in {<<"1">>, <<"2">>} :
          query' = upload_metadata(query, asset_id, "2024-05-02T10:30:00")
    /\ pc' = "annotate"
    /\ UNCHANGED <<sparql_query, gateway_calls, results, response, arg, ret>>

\* annotate_asset has returned rdf_triples_count (ret): the count is stored in
\* the metadata and the SuccessResponse returned
UploadReturns ==
    /\ pc = "annotated"
    /\ query' = [query EXCEPT !.rdf_triples_count = ret]
    /\ ret' = Return([status |-> "success",
                      message |-> <<"Asset", query.file_name,
                                    "uploaded and annotated successfully">>,
                      data |-> [asset_id |-> query.id,
                                file_name |-> query.file_name,
                                file_size |-> query.character_count,
                                asset_type |-> query.asset_type,
                                wdo_classes |-> query.wdo_classes,
                                rdf_triples_count |-> ret,
                                metadata |-> [query EXCEPT !.rdf_triples_count = ret]]])
    /\ pc' = "uploaded"
    /\ UNCHANGED <<sparql_query, gateway_calls, results, response, arg>>

SpecUpload ==
    InitUpload
    /\ [][UploadSaveRaises \/ UploadCallsAnnotate \/ AnnotateCallsAddTriples
          \/ AddTriplesReturns \/ AddTriplesRaises \/ UploadReturns]_vars

\* C30: upload_asset returns its success response only if the triples of the
\* asset were accepted by the triple store; when add_triples returns False or
\* raises, the request ends in an error and not in a success response with
\* rdf_triples_count = 0
C30_SuccessOnlyIfStored ==
    pc = "uploaded" =>
        /\ (~ret.raised /\ ret.value.status = "success") =>
              /\ response = "stored"
              /\ ret.value.data.rdf_triples_count > 0
        /\ response \in {"rejected", "raised"} => ret.raised

============================================================================
